---- MODULE Spec2Model ----
(***************************************************************************)
(* Model of the tunnel-app protocol engine: the minimal Cap'n Proto codec   *)
(* (capnp_minimal.c), the control-stream decoder (control_stream.c), the    *)
(* stream multiplexer (quic_tunnel.c) and the tunnel state machine          *)
(* (tunnel_main.c).  Byte buffers are sequences of 0..255; a C offset `off` *)
(* into a buffer is element off+1 of the sequence.                          *)
(***************************************************************************)
EXTENDS Integers, Sequences, FiniteSets, TLC

(* ------------------------------------------------------------------------ *)
(* Byte-buffer helpers                                                      *)
(* ------------------------------------------------------------------------ *)

Min(a, b) == IF a < b THEN a ELSE b

\* Let([x \in {e} |-> body]) is body with the local variable x holding e
Let(f) == f[CHOOSE x \in DOMAIN f : TRUE]

Zeros(n) == [i \in 1..n |-> 0]

\* p[off] for a buffer p
At(buf, off) == buf[off + 1]

\* the len bytes of buf starting at C offset off
Slice(buf, off, len) == SubSeq(buf, off + 1, off + len)

\* memcpy(buf + off, bytes, Len(bytes))
SetBytes(buf, off, bytes) ==
    [i \in 1..Len(buf) |->
        IF i > off /\ i <= off + Len(bytes) THEN bytes[i - off] ELSE buf[i]]

align8(n) == ((n + 7) \div 8) * 8

read_le16(buf, off) == At(buf, off) + 256 * At(buf, off + 1)

read_le32(buf, off) ==
    At(buf, off) + 256 * At(buf, off + 1) + 65536 * At(buf, off + 2)
        + 16777216 * At(buf, off + 3)

le16(v) == <<v % 256, (v \div 256) % 256>>

le32(v) == <<v % 256, (v \div 256) % 256, (v \div 65536) % 256,
             (v \div 16777216) % 256>>

(* ------------------------------------------------------------------------ *)
(* Builder (capnp_minimal.c).  A builder is [buf, cap, pos, ok]; buf holds   *)
(* the bytes 0..pos-1 of the zero-filled working region; ok = FALSE once an *)
(* allocation has overflowed.  The word offset of a pointer is kept as a    *)
(* signed number and encoded in two's complement on 30 bits.                *)
(* ------------------------------------------------------------------------ *)

capnp_builder_init(cap) == [buf |-> <<>>, cap |-> cap, pos |-> 0, ok |-> TRUE]

\* the offset capnp_alloc returns (-1 on overflow)
capnp_alloc_off(b, words) ==
    IF align8(b.pos) + words * 8 > b.cap THEN -1 ELSE align8(b.pos)

\* capnp_alloc with the defect of refusing an allocation that ends at the
\* end of the segment
capnp_alloc_strict(b, words) ==
    LET aligned == align8(b.pos)
        need    == aligned + words * 8
    IN  IF need >= b.cap
        THEN [b EXCEPT !.ok = FALSE]
        ELSE [b EXCEPT !.buf = SubSeq(b.buf, 1, b.pos) \o Zeros(need - b.pos),
                       !.pos = need]

capnp_alloc(b, words) ==
    LET aligned == align8(b.pos)
        need    == aligned + words * 8
    IN  IF need > b.cap
        THEN [b EXCEPT !.ok = FALSE]
        ELSE [b EXCEPT !.buf = SubSeq(b.buf, 1, b.pos) \o Zeros(need - b.pos),
                       !.pos = need]

\* the 4 bytes of lo = (uint32_t)(off_words << 2) | kind
PtrLo(off_words, kind) ==
    LET u30 == IF off_words < 0 THEN off_words + 1073741824 ELSE off_words
    IN  <<(u30 % 64) * 4 + kind, (u30 \div 64) % 256, (u30 \div 16384) % 256,
          (u30 \div 4194304) % 256>>

\* capnp_write_struct_ptr with the defect of counting the offset from the
\* start of the pointer word instead of its end
capnp_write_struct_ptr_from_start(buf, ptr_offset, struct_offset, data_words, ptr_count) ==
    LET off_words == (struct_offset - ptr_offset) \div 8
    IN  SetBytes(buf, ptr_offset,
                 PtrLo(off_words, 0) \o le16(data_words) \o le16(ptr_count))

capnp_write_struct_ptr(buf, ptr_offset, struct_offset, data_words, ptr_count) ==
    LET off_words == (struct_offset - ptr_offset - 8) \div 8
    IN  SetBytes(buf, ptr_offset,
                 PtrLo(off_words, 0) \o le16(data_words) \o le16(ptr_count))

\* the builder with a struct pointer written at ptr_offset
WithStructPtr(b, ptr_offset, struct_offset, data_words, ptr_count) ==
    [b EXCEPT !.buf = capnp_write_struct_ptr(b.buf, ptr_offset, struct_offset,
                                             data_words, ptr_count)]

\* the builder after memcpy(b->buf + off, bytes, Len(bytes))
Poke(b, off, bytes) == [b EXCEPT !.buf = SetBytes(b.buf, off, bytes)]

\* hi = elem_size | (count << 3), count on 29 bits
capnp_write_list_ptr(buf, ptr_offset, list_offset, elem_size, count) ==
    LET off_words == (list_offset - ptr_offset - 8) \div 8
        c29       == count % 536870912
    IN  SetBytes(buf, ptr_offset,
                 PtrLo(off_words, 1) \o
                 <<elem_size + (c29 % 32) * 8, (c29 \div 32) % 256,
                   (c29 \div 8192) % 256, (c29 \div 2097152) % 256>>)

\* capnp_write_text with the defect of leaving the NUL out of the list count
capnp_write_text_no_nul(b, ptr_offset, text) ==
    IF Len(text) = 0
    THEN [b EXCEPT !.buf = SetBytes(b.buf, ptr_offset, Zeros(8))]
    ELSE LET byte_count == Len(text) + 1
             words      == (byte_count + 7) \div 8
             data_off   == capnp_alloc_off(b, words)
             b1         == capnp_alloc(b, words)
         IN  IF data_off < 0 THEN b1
             ELSE [b1 EXCEPT !.buf =
                     capnp_write_list_ptr(SetBytes(b1.buf, data_off, text \o <<0>>),
                                          ptr_offset, data_off, 2, Len(text))]

\* text is a sequence of non-zero bytes (a C string without its NUL)
capnp_write_text(b, ptr_offset, text) ==
    IF Len(text) = 0
    THEN [b EXCEPT !.buf = SetBytes(b.buf, ptr_offset, Zeros(8))]
    ELSE LET byte_count == Len(text) + 1
             words      == (byte_count + 7) \div 8
             data_off   == capnp_alloc_off(b, words)
             b1         == capnp_alloc(b, words)
         IN  IF data_off < 0 THEN b1
             ELSE [b1 EXCEPT !.buf =
                     capnp_write_list_ptr(SetBytes(b1.buf, data_off, text \o <<0>>),
                                          ptr_offset, data_off, 2, byte_count)]

capnp_write_data(b, ptr_offset, data) ==
    IF Len(data) = 0
    THEN [b EXCEPT !.buf = SetBytes(b.buf, ptr_offset, Zeros(8))]
    ELSE LET words    == (Len(data) + 7) \div 8
             data_off == capnp_alloc_off(b, words)
             b1       == capnp_alloc(b, words)
         IN  IF data_off < 0 THEN b1
             ELSE [b1 EXCEPT !.buf =
                     capnp_write_list_ptr(SetBytes(b1.buf, data_off, data),
                                          ptr_offset, data_off, 2, Len(data))]

\* capnp_finalize with the defect of writing the segment size in bytes
capnp_finalize_bytes(b, out_cap) ==
    LET seg_words == align8(b.pos) \div 8
        total     == 8 + seg_words * 8
    IN  IF total > out_cap THEN <<>>
        ELSE le32(0) \o le32(seg_words * 8) \o SubSeq(b.buf, 1, b.pos)
                \o Zeros(seg_words * 8 - b.pos)

\* the blob written to out (<<>> when it does not fit: the C returns 0)
capnp_finalize(b, out_cap) ==
    LET seg_words == align8(b.pos) \div 8
        total     == 8 + seg_words * 8
    IN  IF total > out_cap THEN <<>>
        ELSE le32(0) \o le32(seg_words) \o SubSeq(b.buf, 1, b.pos)
                \o Zeros(seg_words * 8 - b.pos)

(* ------------------------------------------------------------------------ *)
(* Reader (capnp_minimal.c).  A reader is [mem, base, seg_len, wild]: the    *)
(* segment is the seg_len bytes of buffer mem that start at C offset base.  *)
(* A size_t value is kept as an integer; a negative integer stands for the  *)
(* wrapped (huge) unsigned value.  A read outside mem yields byte wild.     *)
(* ------------------------------------------------------------------------ *)

\* a > b on size_t, b >= 0
SzGt(a, b) == a < 0 \/ a > b

\* seg[off]
SegAt(r, off) ==
    IF r.base + off >= 0 /\ r.base + off < Len(r.mem)
    THEN At(r.mem, r.base + off) ELSE r.wild

seg_le16(r, off) == SegAt(r, off) + 256 * SegAt(r, off + 1)

\* lo == 0 && hi == 0 for the pointer word at off
WordIsZero(r, off) == \A i \in 0..7 : SegAt(r, off + i) = 0

\* (int32_t)lo >> 2 for the pointer word at off
PtrOffWords(r, off) ==
    LET u30 == (SegAt(r, off) \div 4) + 64 * SegAt(r, off + 1)
                 + 16384 * SegAt(r, off + 2) + 4194304 * SegAt(r, off + 3)
    IN  IF SegAt(r, off + 3) >= 128 THEN u30 - 1073741824 ELSE u30

\* offsets farther than this many words are outside every buffer of the model
FarWords == 1048576

\* (size_t)((int64_t)off_words * 8), saturated at FarWords
OffBytes(off_words) ==
    IF off_words > FarWords THEN FarWords * 8
    ELSE IF off_words < 0 - FarWords THEN 0 - FarWords * 8
    ELSE off_words * 8

\* hi >> 3 for the list pointer word at off
ListCount(r, off) ==
    (SegAt(r, off + 4) \div 8) + 32 * SegAt(r, off + 5) + 8192 * SegAt(r, off + 6)
        + 2097152 * SegAt(r, off + 7)

\* [ok, r]: ok = FALSE is the C's -1
capnp_read_message(mem, base, len, wild) ==
    LET bad == [ok |-> FALSE,
                r |-> [mem |-> mem, base |-> base, seg_len |-> 0, wild |-> wild]]
    IN  IF len < 8 THEN bad
        ELSE IF read_le32(mem, base) # 0 THEN bad
        ELSE IF 8 + read_le32(mem, base + 4) * 8 > len THEN bad
        ELSE [ok |-> TRUE,
              r |-> [mem |-> mem, base |-> base + 8,
                     seg_len |-> read_le32(mem, base + 4) * 8, wild |-> wild]]

\* [ret, off, dw, pc]
capnp_read_struct_ptr(r, ptr_offset) ==
    LET fail == [ret |-> -1, off |-> 0, dw |-> 0, pc |-> 0]
    IN  IF SzGt(ptr_offset + 8, r.seg_len) THEN fail
        ELSE IF WordIsZero(r, ptr_offset) THEN fail
        ELSE IF SegAt(r, ptr_offset) % 4 # 0 THEN fail
        ELSE [ret |-> 0,
              off |-> ptr_offset + 8 + OffBytes(PtrOffWords(r, ptr_offset)),
              dw  |-> seg_le16(r, ptr_offset + 4),
              pc  |-> seg_le16(r, ptr_offset + 6)]

\* [ptr, off, len]: ptr = FALSE is the C's NULL; len is *out_len (0 when the
\* C leaves the caller's zero-initialised out_len untouched)
capnp_read_text(r, ptr_offset) ==
    LET null  == [ptr |-> FALSE, off |-> 0, len |-> 0]
        count == ListCount(r, ptr_offset)
        data_offset == ptr_offset + 8 + OffBytes(PtrOffWords(r, ptr_offset))
    IN  IF SzGt(ptr_offset + 8, r.seg_len) THEN null
        ELSE IF WordIsZero(r, ptr_offset) THEN null
        ELSE IF SegAt(r, ptr_offset) % 4 # 1 THEN null
        ELSE IF SegAt(r, ptr_offset + 4) % 8 # 2 THEN null
        ELSE IF SzGt(data_offset + count, r.seg_len) THEN null
        ELSE [ptr |-> TRUE, off |-> data_offset,
              len |-> IF count > 0 THEN count - 1 ELSE 0]

capnp_read_data(r, ptr_offset) ==
    LET null  == [ptr |-> FALSE, off |-> 0, len |-> 0]
        count == ListCount(r, ptr_offset)
        data_offset == ptr_offset + 8 + OffBytes(PtrOffWords(r, ptr_offset))
    IN  IF SzGt(ptr_offset + 8, r.seg_len) THEN null
        ELSE IF WordIsZero(r, ptr_offset) THEN null
        ELSE IF SegAt(r, ptr_offset) % 4 # 1 THEN null
        ELSE IF SegAt(r, ptr_offset + 4) % 8 # 2 THEN null
        ELSE IF SzGt(data_offset + count, r.seg_len) THEN null
        ELSE [ptr |-> TRUE, off |-> data_offset, len |-> count]

capnp_read_uint16(r, struct_data_offset, byte_offset) ==
    IF SzGt(struct_data_offset + byte_offset + 2, r.seg_len) THEN 0
    ELSE seg_le16(r, struct_data_offset + byte_offset)

capnp_read_uint8(r, struct_data_offset, byte_offset) ==
    IF SzGt(struct_data_offset + byte_offset + 1, r.seg_len) THEN 0
    ELSE SegAt(r, struct_data_offset + byte_offset)

capnp_read_bool(r, struct_data_offset, byte_offset, bit) ==
    IF SzGt(struct_data_offset + byte_offset + 1, r.seg_len) THEN FALSE
    ELSE (SegAt(r, struct_data_offset + byte_offset) \div (2 ^ bit)) % 2 = 1

\* the bytes seg[off .. off+n-1]
SegBytes(r, off, n) == [i \in 1..n |-> SegAt(r, off + i - 1)]

\* capnp_wire_message_size with the defect of sizing a message by its first
\* segment whatever the segment count
capnp_wire_message_size_any_segments(mem, base, len) ==
    IF len < 8 THEN 0
    ELSE IF 8 + read_le32(mem, base + 4) * 8 > len THEN 0
    ELSE 8 + read_le32(mem, base + 4) * 8

\* capnp_wire_message_size with the defect of leaving the 8-byte segment
\* table out of the size
capnp_wire_message_size_no_header(mem, base, len) ==
    IF len < 8 THEN 0
    ELSE IF read_le32(mem, base) # 0 THEN 0
    ELSE IF read_le32(mem, base + 4) * 8 > len THEN 0
    ELSE read_le32(mem, base + 4) * 8

capnp_wire_message_size(mem, base, len) ==
    IF len < 8 THEN 0
    ELSE IF read_le32(mem, base) # 0 THEN 0
    ELSE IF 8 + read_le32(mem, base + 4) * 8 > len THEN 0
    ELSE 8 + read_le32(mem, base + 4) * 8

(* ------------------------------------------------------------------------ *)
(* Texts are sequences of character codes.                                  *)
(* ------------------------------------------------------------------------ *)

RECURSIVE Dec(_)
\* printf("%u", n)
Dec(n) == IF n < 10 THEN <<48 + n>> ELSE Dec(n \div 10) \o <<48 + (n % 10)>>

\* HexDigit with the defect of printing upper-case digits ("%02X")
HexDigitUpper(d) == IF d < 10 THEN 48 + d ELSE 55 + d

HexDigit(d) == IF d < 10 THEN 48 + d ELSE 87 + d

\* printf("%02x", byte)
Hex2(byte) == <<HexDigit(byte \div 16), HexDigit(byte % 16)>>

RECURSIVE HexDump(_)
HexDump(bytes) ==
    IF Len(bytes) = 0 THEN <<>> ELSE Hex2(Head(bytes)) \o HexDump(Tail(bytes))

\* a char array read as a C string: the bytes before the first NUL
CStr(bytes) ==
    LET nuls == {i \in 1..Len(bytes) : bytes[i] = 0}
    IN  IF nuls = {} THEN bytes
        ELSE SubSeq(bytes, 1, (CHOOSE i \in nuls : \A j \in nuls : i <= j) - 1)

\* snprintf into a char[cap]: at most cap - 1 characters are kept
Trunc(text, cap) == SubSeq(text, 1, Min(Len(text), cap - 1))

\* The string literals of the program and of the requests of the edge, as
\* sequences of character codes
Txt ==
    [
      \* "invalid capnp message"
      InvalidCapnp |->
          <<105, 110, 118, 97, 108, 105, 100, 32, 99, 97, 112, 110, 112, 32,
            109, 101, 115, 115, 97, 103, 101>>,
      \* "invalid root pointer"
      InvalidRoot |->
          <<105, 110, 118, 97, 108, 105, 100, 32, 114, 111, 111, 116, 32,
            112, 111, 105, 110, 116, 101, 114>>,
      \* "unexpected RPC message type "
      UnexpectedType |->
          <<117, 110, 101, 120, 112, 101, 99, 116, 101, 100, 32, 82, 80, 67,
            32, 109, 101, 115, 115, 97, 103, 101, 32, 116, 121, 112, 101, 32>>,
      \* "invalid Return pointer"
      InvalidReturn |->
          <<105, 110, 118, 97, 108, 105, 100, 32, 82, 101, 116, 117, 114,
            110, 32, 112, 111, 105, 110, 116, 101, 114>>,
      \* "registration canceled"
      Canceled |->
          <<114, 101, 103, 105, 115, 116, 114, 97, 116, 105, 111, 110, 32,
            99, 97, 110, 99, 101, 108, 101, 100>>,
      \* "unknown Return type "
      UnknownReturn |->
          <<117, 110, 107, 110, 111, 119, 110, 32, 82, 101, 116, 117, 114,
            110, 32, 116, 121, 112, 101, 32>>,
      \* "invalid Payload"
      InvalidPayload |->
          <<105, 110, 118, 97, 108, 105, 100, 32, 80, 97, 121, 108, 111, 97,
            100>>,
      \* "invalid Results wrapper"
      InvalidResults |->
          <<105, 110, 118, 97, 108, 105, 100, 32, 82, 101, 115, 117, 108,
            116, 115, 32, 119, 114, 97, 112, 112, 101, 114>>,
      \* "invalid ConnectionResponse"
      InvalidConnResp |->
          <<105, 110, 118, 97, 108, 105, 100, 32, 67, 111, 110, 110, 101, 99,
            116, 105, 111, 110, 82, 101, 115, 112, 111, 110, 115, 101>>,
      \* "registration error (could not parse details)"
      NoDetails |->
          <<114, 101, 103, 105, 115, 116, 114, 97, 116, 105, 111, 110, 32,
            101, 114, 114, 111, 114, 32, 40, 99, 111, 117, 108, 100, 32, 110,
            111, 116, 32, 112, 97, 114, 115, 101, 32, 100, 101, 116, 97, 105,
            108, 115, 41>>,
      \* "invalid ConnectionDetails"
      InvalidDetails |->
          <<105, 110, 118, 97, 108, 105, 100, 32, 67, 111, 110, 110, 101, 99,
            116, 105, 111, 110, 68, 101, 116, 97, 105, 108, 115>>,
      \* "unknown ConnectionResponse type "
      UnknownConnResp |->
          <<117, 110, 107, 110, 111, 119, 110, 32, 67, 111, 110, 110, 101,
            99, 116, 105, 111, 110, 82, 101, 115, 112, 111, 110, 115, 101,
            32, 116, 121, 112, 101, 32>>,
      \* "cpp-cloudflared/0.1.0"
      Version |->
          <<99, 112, 112, 45, 99, 108, 111, 117, 100, 102, 108, 97, 114, 101,
            100, 47, 48, 46, 49, 46, 48>>,
      \* "linux_amd64"
      Arch |->
          <<108, 105, 110, 117, 120, 95, 97, 109, 100, 54, 52>>,
      \* "HttpStatus"
      HttpStatus |->
          <<72, 116, 116, 112, 83, 116, 97, 116, 117, 115>>,
      \* "HttpHeader:"
      HttpHeader |->
          <<72, 116, 116, 112, 72, 101, 97, 100, 101, 114, 58>>,
      \* "HttpMethod"
      HttpMethod |->
          <<72, 116, 116, 112, 77, 101, 116, 104, 111, 100>>,
      \* "POST"
      Post |->
          <<80, 79, 83, 84>>,
      \* "ping"
      Ping |->
          <<112, 105, 110, 103>>
    ]

(* ------------------------------------------------------------------------ *)
(* control_stream_decode_response (control_stream.c).  The result is the    *)
(* C return value ret together with the fields of cf_registration_result_t; *)
(* error, uuid and location hold the bytes written before the NUL.          *)
(* ------------------------------------------------------------------------ *)

ResultZero ==
    [ret |-> 0, success |-> FALSE, uuid |-> <<>>, location |-> <<>>,
     tunnel_is_remote |-> FALSE, error |-> <<>>,
     retry_after_ns |-> [lo |-> Zeros(4), hi |-> Zeros(4)], should_retry |-> FALSE]

\* the %02x.. formatting of a 16-byte uuid
UuidText(u) ==
    HexDump(SubSeq(u, 1, 4)) \o <<45>> \o HexDump(SubSeq(u, 5, 6)) \o <<45>>
        \o HexDump(SubSeq(u, 7, 8)) \o <<45>> \o HexDump(SubSeq(u, 9, 10))
        \o <<45>> \o HexDump(SubSeq(u, 11, 16))

\* DecodeException with the defect of leaving should_retry unset
DecodeExceptionNoRetry(r, ret_ptrs) ==
    Let([exc \in {capnp_read_struct_ptr(r, ret_ptrs)} |->
    Let([reason \in {capnp_read_text(r, exc.off + exc.dw * 8)} |->
        [ResultZero EXCEPT
            !.error = IF exc.ret = 0 /\ exc.pc >= 1 /\ reason.ptr /\ reason.len > 0
                      THEN CStr(SegBytes(r, reason.off, Min(reason.len, 255)))
                      ELSE <<>>]
    ])])

\* ret_which == 1: Exception
DecodeException(r, ret_ptrs) ==
    Let([exc \in {capnp_read_struct_ptr(r, ret_ptrs)} |->
    Let([reason \in {capnp_read_text(r, exc.off + exc.dw * 8)} |->
        [ResultZero EXCEPT
            !.error = IF exc.ret = 0 /\ exc.pc >= 1 /\ reason.ptr /\ reason.len > 0
                      THEN CStr(SegBytes(r, reason.off, Min(reason.len, 255)))
                      ELSE <<>>,
            !.should_retry = TRUE]
    ])])

\* cr_which == 0: ConnectionError
DecodeConnError(r, connresp_pc, cr_ptrs) ==
    Let([es \in {capnp_read_struct_ptr(r, cr_ptrs)} |->
    Let([txt \in {capnp_read_text(r, es.off + es.dw * 8)} |->
        IF connresp_pc >= 1 /\ es.ret = 0
        THEN [ResultZero EXCEPT
                !.retry_after_ns =
                    IF es.dw >= 1
                    THEN [lo |-> SegBytes(r, es.off, 4), hi |-> SegBytes(r, es.off + 4, 4)]
                    ELSE [lo |-> Zeros(4), hi |-> Zeros(4)],
                !.should_retry =
                    IF es.dw >= 2 THEN capnp_read_bool(r, es.off, 8, 0) ELSE FALSE,
                !.error =
                    IF es.pc >= 1 /\ txt.ptr /\ txt.len > 0
                    THEN CStr(SegBytes(r, txt.off, Min(txt.len, 255)))
                    ELSE <<>>]
        ELSE [ResultZero EXCEPT !.error = Txt.NoDetails]
    ])])

\* cr_which == 1: ConnectionDetails
DecodeConnDetails(r, cr_ptrs) ==
    Let([d \in {capnp_read_struct_ptr(r, cr_ptrs)} |->
    Let([uuid \in {capnp_read_data(r, d.off + d.dw * 8)} |->
    Let([loc \in {capnp_read_text(r, d.off + d.dw * 8 + 8)} |->
        IF d.ret # 0
        THEN [ResultZero EXCEPT !.ret = -1, !.error = Txt.InvalidDetails]
        ELSE [ResultZero EXCEPT
                !.tunnel_is_remote =
                    IF d.dw >= 1 THEN capnp_read_bool(r, d.off, 0, 0) ELSE FALSE,
                !.uuid =
                    IF d.pc >= 1 /\ uuid.ptr /\ uuid.len >= 16
                    THEN UuidText(SegBytes(r, uuid.off, 16))
                    ELSE IF d.pc >= 1 /\ uuid.ptr /\ uuid.len > 0
                    THEN HexDump(SegBytes(r, uuid.off, uuid.len))
                    ELSE <<>>,
                !.location =
                    IF d.pc >= 2 /\ loc.ptr /\ loc.len > 0
                    THEN CStr(SegBytes(r, loc.off, Min(loc.len, 31)))
                    ELSE <<>>,
                !.success = TRUE]
    ])])])

\* ret_which == 0: results
DecodeResults(r, ret_ptrs) ==
    Let([payload \in {capnp_read_struct_ptr(r, ret_ptrs)} |->
    Let([results \in {capnp_read_struct_ptr(r, payload.off + payload.dw * 8)} |->
    Let([connresp \in {capnp_read_struct_ptr(r, results.off + results.dw * 8)} |->
    Let([cr_which \in {capnp_read_uint16(r, connresp.off, 0)} |->
        IF payload.ret # 0
        THEN [ResultZero EXCEPT !.ret = -1, !.error = Txt.InvalidPayload]
        ELSE IF results.ret # 0
        THEN [ResultZero EXCEPT !.ret = -1, !.error = Txt.InvalidResults]
        ELSE IF results.pc < 1 \/ connresp.ret # 0
        THEN [ResultZero EXCEPT !.ret = -1, !.error = Txt.InvalidConnResp]
        ELSE IF cr_which = 0
        THEN DecodeConnError(r, connresp.pc, connresp.off + connresp.dw * 8)
        ELSE IF cr_which = 1
        THEN DecodeConnDetails(r, connresp.off + connresp.dw * 8)
        ELSE [ResultZero EXCEPT !.ret = -1,
                                !.error = Txt.UnknownConnResp \o Dec(cr_which)]
    ])])])])

\* the message is the len bytes of mem at C offset base
control_stream_decode_response(mem, base, len, wild) ==
    Let([m \in {capnp_read_message(mem, base, len, wild)} |->
    Let([root \in {capnp_read_struct_ptr(m.r, 0)} |->
    Let([msg_which \in {capnp_read_uint16(m.r, root.off, 0)} |->
    Let([rs \in {capnp_read_struct_ptr(m.r, root.off + root.dw * 8)} |->
    Let([ret_which \in {IF rs.dw >= 1 THEN capnp_read_uint16(m.r, rs.off, 6)
                        ELSE 0} |->
        IF ~m.ok THEN [ResultZero EXCEPT !.ret = -1, !.error = Txt.InvalidCapnp]
        ELSE IF root.ret # 0
        THEN [ResultZero EXCEPT !.ret = -1, !.error = Txt.InvalidRoot]
        ELSE IF msg_which # 3
        THEN [ResultZero EXCEPT !.ret = -1,
                                !.error = Txt.UnexpectedType \o Dec(msg_which)]
        ELSE IF rs.ret # 0
        THEN [ResultZero EXCEPT !.ret = -1, !.error = Txt.InvalidReturn]
        ELSE IF ret_which = 1 THEN DecodeException(m.r, rs.off + rs.dw * 8)
        ELSE IF ret_which = 2 THEN [ResultZero EXCEPT !.error = Txt.Canceled]
        ELSE IF ret_which # 0
        THEN [ResultZero EXCEPT !.ret = -1,
                                !.error = Txt.UnknownReturn \o Dec(ret_which)]
        ELSE DecodeResults(m.r, rs.off + rs.dw * 8)
    ])])])])])

(* ------------------------------------------------------------------------ *)
(* Messages the edge sends on the control stream, laid out as the Return    *)
(* layout documented in control_stream.c describes and built with the       *)
(* builder above.                                                           *)
(* ------------------------------------------------------------------------ *)

\* root pointer -> Message (dw=1, pc=1) with discriminant which -> a struct
\* (dw=2, pc=1) holding answer_id and the union discriminant ret_which.
\* The builder is left with the struct's pointer[0] at offset 40.
EdgeEnvelope(which, answer_id, ret_which) ==
    LET b1 == capnp_alloc(capnp_builder_init(512), 1)
        b2 == capnp_alloc(b1, 2)
        b3 == WithStructPtr(b2, 0, 8, 1, 1)
        b4 == Poke(b3, 8, le16(which))
        b5 == capnp_alloc(b4, 3)
        b6 == WithStructPtr(b5, 16, 24, 2, 1)
    IN  Poke(Poke(b6, 24, le32(answer_id)), 30, le16(ret_which))

\* Return{exception}: Exception (dw=1, pc=1), pointer[0] = reason
EdgeException(answer_id, reason) ==
    LET b0 == EdgeEnvelope(3, answer_id, 1)
        b1 == capnp_alloc(b0, 2)
        b2 == WithStructPtr(b1, 40, 48, 1, 1)
    IN  capnp_finalize(capnp_write_text(b2, 56, reason), 512)

\* Return{canceled}
EdgeCanceled(answer_id) == capnp_finalize(EdgeEnvelope(3, answer_id, 2), 512)

\* a Return whose union discriminant is not one the decoder knows
EdgeUnknownReturn(answer_id, ret_which) ==
    capnp_finalize(EdgeEnvelope(3, answer_id, ret_which), 512)

\* a Message that is not a Return (e.g. 4 = finish)
EdgeOtherMessage(which) == capnp_finalize(EdgeEnvelope(which, 0, 0), 512)

\* Return{results}: Payload (dw=0, pc=2) whose content is a capability
\* pointer (kind 3), as in the Return for the Bootstrap question
EdgeBootstrapReturn(answer_id) ==
    LET b0 == EdgeEnvelope(3, answer_id, 0)
        b1 == capnp_alloc(b0, 2)
        b2 == WithStructPtr(b1, 40, 48, 0, 2)
    IN  capnp_finalize(Poke(b2, 48, <<3, 0, 0, 0, 0, 0, 0, 0>>), 512)

\* Return{results} -> Payload -> results wrapper (dw=0, pc=1) ->
\* ConnectionResponse (dw=1, pc=1) with discriminant cr_which; the builder
\* is left with ConnectionResponse.pointer[0] at offset 80.
EdgeConnResp(answer_id, cr_which) ==
    LET b0 == EdgeEnvelope(3, answer_id, 0)
        b1 == capnp_alloc(b0, 2)
        b2 == WithStructPtr(b1, 40, 48, 0, 2)
        b3 == capnp_alloc(b2, 1)
        b4 == WithStructPtr(b3, 48, 64, 0, 1)
        b5 == capnp_alloc(b4, 2)
        b6 == WithStructPtr(b5, 64, 72, 1, 1)
    IN  Poke(b6, 72, le16(cr_which))

\* ConnectionResponse{error}: ConnectionError (dw=2, pc=1)
EdgeConnError(answer_id, retry_lo, should_retry, cause) ==
    LET b0 == EdgeConnResp(answer_id, 0)
        b1 == capnp_alloc(b0, 3)
        b2 == WithStructPtr(b1, 80, 88, 2, 1)
        b3 == Poke(Poke(b2, 88, le32(retry_lo)), 96,
                   <<IF should_retry THEN 1 ELSE 0>>)
    IN  capnp_finalize(capnp_write_text(b3, 104, cause), 512)

\* ConnectionResponse{connectionDetails}: ConnectionDetails (dw=1, pc=2)
EdgeConnDetails(answer_id, remote, uuid, location) ==
    LET b0 == EdgeConnResp(answer_id, 1)
        b1 == capnp_alloc(b0, 3)
        b2 == WithStructPtr(b1, 80, 88, 1, 2)
        b3 == Poke(b2, 88, <<IF remote THEN 1 ELSE 0>>)
        b4 == capnp_write_data(b3, 96, uuid)
    IN  capnp_finalize(capnp_write_text(b4, 104, location), 512)

\* a ConnectionResponse whose discriminant is neither error nor details
EdgeUnknownConnResp(answer_id, cr_which) ==
    capnp_finalize(EdgeConnResp(answer_id, cr_which), 512)

(* ------------------------------------------------------------------------ *)
(* Registration request encoders (control_stream.c): [ret, out].            *)
(* ------------------------------------------------------------------------ *)

EncodeFailed == [ret |-> -1, out |-> <<>>]

\* the blob of a finished builder, or failure when it does not fit out_cap
Finalized(b, out_cap) ==
    LET out == capnp_finalize(b, out_cap)
    IN  IF Len(out) = 0 THEN EncodeFailed ELSE [ret |-> 0, out |-> out]

\* TUNNEL_SERVER_IID = 0xf71695ec7fe85497, as w_le64 writes it
TUNNEL_SERVER_IID == <<151, 84, 232, 127, 236, 149, 22, 247>>

\* encode_bootstrap with the defect of writing the discriminant of a Call
encode_bootstrap_as_call(out_cap) ==
    Let([b0 \in {capnp_builder_init(256)} |->
    Let([rp \in {capnp_alloc_off(b0, 1)}, b1 \in {capnp_alloc(b0, 1)} |->
    Let([msg \in {capnp_alloc_off(b1, 1 + 1)}, b2 \in {capnp_alloc(b1, 1 + 1)} |->
    Let([b3 \in {Poke(WithStructPtr(b2, rp, msg, 1, 1), msg, le16(2))} |->
    Let([boot \in {capnp_alloc_off(b3, 1 + 1)}, b4 \in {capnp_alloc(b3, 1 + 1)} |->
        IF rp < 0 \/ msg < 0 \/ boot < 0 THEN EncodeFailed
        ELSE Finalized(WithStructPtr(b4, msg + 8, boot, 1, 1), out_cap)
    ])])])])])

encode_bootstrap(out_cap) ==
    Let([b0 \in {capnp_builder_init(256)} |->
    Let([rp \in {capnp_alloc_off(b0, 1)}, b1 \in {capnp_alloc(b0, 1)} |->
    Let([msg \in {capnp_alloc_off(b1, 1 + 1)}, b2 \in {capnp_alloc(b1, 1 + 1)} |->
    Let([b3 \in {Poke(WithStructPtr(b2, rp, msg, 1, 1), msg, le16(8))} |->
    Let([boot \in {capnp_alloc_off(b3, 1 + 1)}, b4 \in {capnp_alloc(b3, 1 + 1)} |->
        IF rp < 0 \/ msg < 0 \/ boot < 0 THEN EncodeFailed
        ELSE Finalized(WithStructPtr(b4, msg + 8, boot, 1, 1), out_cap)
    ])])])])])

\* ClientInfo and what hangs off ConnectionOptions.pointer[0]: the builder,
\* ok = FALSE when an allocation failed
EncodeClientInfo(b, co, options) ==
    Let([b1 \in {Poke(b, co, <<(IF options.replace_existing THEN 1 ELSE 0),
                               options.compression_quality,
                               options.num_previous_attempts>>)} |->
    Let([ci \in {capnp_alloc_off(b1, 0 + 4)}, b2 \in {capnp_alloc(b1, 0 + 4)} |->
    Let([b3 \in {capnp_write_data(WithStructPtr(b2, co + 8, ci, 0, 4), ci + 0,
                                  options.client_id)} |->
    Let([b4 \in {capnp_write_text(b3, ci + 16, options.version)} |->
        IF ci < 0 THEN [b1 EXCEPT !.ok = FALSE]
        ELSE IF ~b3.ok THEN b3
        ELSE IF ~b4.ok THEN b4
        ELSE capnp_write_text(b4, ci + 24, options.arch)
    ])])])])

\* RegisterConnection params and what hangs off them
EncodeParams(b, payload, auth, tunnel_id, conn_index, options) ==
    Let([params \in {capnp_alloc_off(b, 1 + 3)}, b0 \in {capnp_alloc(b, 1 + 3)} |->
    Let([b1 \in {Poke(WithStructPtr(b0, payload, params, 1, 3),
                      params, <<conn_index>>)} |->
    Let([ta \in {capnp_alloc_off(b1, 0 + 2)}, b2 \in {capnp_alloc(b1, 0 + 2)} |->
    Let([b3 \in {capnp_write_text(WithStructPtr(b2, params + 8, ta, 0, 2), ta + 0,
                                  auth.account_tag)} |->
    Let([b4 \in {IF Len(auth.tunnel_secret) > 0
                 THEN capnp_write_data(b3, ta + 8, auth.tunnel_secret) ELSE b3} |->
    Let([b5 \in {IF Len(tunnel_id) > 0
                 THEN capnp_write_data(b4, params + 8 + 8, tunnel_id) ELSE b4} |->
    Let([co \in {capnp_alloc_off(b5, 1 + 2)}, b6 \in {capnp_alloc(b5, 1 + 2)} |->
        IF params < 0 \/ ta < 0 THEN [b EXCEPT !.ok = FALSE]
        ELSE IF ~b3.ok THEN b3
        ELSE IF ~b4.ok THEN b4
        ELSE IF ~b5.ok THEN b5
        ELSE IF co < 0 THEN [b5 EXCEPT !.ok = FALSE]
        ELSE EncodeClientInfo(WithStructPtr(b6, params + 8 + 16, co, 1, 2), co,
                              options)
    ])])])])])])])

encode_call(auth, tunnel_id, conn_index, options, out_cap) ==
    Let([b0 \in {capnp_builder_init(4096)} |->
    Let([rp \in {capnp_alloc_off(b0, 1)}, b1 \in {capnp_alloc(b0, 1)} |->
    Let([msg \in {capnp_alloc_off(b1, 1 + 1)}, b2 \in {capnp_alloc(b1, 1 + 1)} |->
    Let([b3 \in {Poke(WithStructPtr(b2, rp, msg, 1, 1), msg, le16(2))} |->
    Let([call \in {capnp_alloc_off(b3, 3 + 3)}, b4 \in {capnp_alloc(b3, 3 + 3)} |->
    Let([b5 \in {Poke(Poke(Poke(WithStructPtr(b4, msg + 8, call, 3, 3),
                                call + 0, le32(1)), call + 4, le16(0)),
                      call + 8, TUNNEL_SERVER_IID)} |->
    Let([target \in {capnp_alloc_off(b5, 1 + 1)}, b6 \in {capnp_alloc(b5, 1 + 1)} |->
    Let([b7 \in {Poke(WithStructPtr(b6, call + 3 * 8 + 0, target, 1, 1),
                      target + 4, le16(1))} |->
    Let([pa \in {capnp_alloc_off(b7, 1 + 1)}, b8 \in {capnp_alloc(b7, 1 + 1)} |->
    Let([b9 \in {Poke(WithStructPtr(b8, target + 8, pa, 1, 1), pa, le32(0))} |->
    Let([payload \in {capnp_alloc_off(b9, 0 + 2)}, b10 \in {capnp_alloc(b9, 0 + 2)} |->
    Let([b11 \in {EncodeParams(WithStructPtr(b10, call + 3 * 8 + 8, payload, 0, 2),
                               payload, auth, tunnel_id, conn_index, options)} |->
        IF rp < 0 \/ msg < 0 \/ call < 0 \/ target < 0 \/ pa < 0 \/ payload < 0
        THEN EncodeFailed
        ELSE IF ~b11.ok THEN EncodeFailed
        ELSE Finalized(b11, out_cap)
    ])])])])])])])])])])])])

control_stream_encode_register(auth, tunnel_id, conn_index, options, buf_cap) ==
    Let([boot \in {encode_bootstrap(buf_cap)} |->
    Let([call \in {encode_call(auth, tunnel_id, conn_index, options,
                               buf_cap - Len(boot.out))} |->
        IF boot.ret # 0 THEN EncodeFailed
        ELSE IF call.ret # 0 THEN EncodeFailed
        ELSE [ret |-> 0, out |-> boot.out \o call.out]
    ])])

(* ------------------------------------------------------------------------ *)
(* Data-stream framing (data_stream.c) and the ConnectRequest /             *)
(* ConnectResponse codec (capnp_minimal.c).                                 *)
(* ------------------------------------------------------------------------ *)

CF_DATA_STREAM_SIGNATURE == <<10, 54, 205, 18, 161, 62>>

\* CF_DATA_STREAM_VERSION "01"
CF_DATA_STREAM_VERSION == <<48, 49>>

PREAMBLE_LEN == 6 + 2

CF_MAX_METADATA == 32

\* the text a field of cap chars holds after memcpy of min(len, cap - 1) bytes
TextField(r, t, cap) ==
    IF t.ptr /\ t.len > 0
    THEN CStr(SegBytes(r, t.off, Min(t.len, cap - 1)))
    ELSE <<>>

RECURSIVE MetadataLoop(_, _, _, _, _, _)
\* the for loop over the composite list's elements, from element i
MetadataLoop(r, elem_base, elem_dw, elem_stride, elem_count, i) ==
    Let([e_ptr_section \in {elem_base + i * elem_stride + elem_dw * 8} |->
        IF i >= elem_count \/ i >= CF_MAX_METADATA THEN <<>>
        ELSE IF SzGt(e_ptr_section + 16, r.seg_len) THEN <<>>
        ELSE <<[key |-> TextField(r, capnp_read_text(r, e_ptr_section + 0), 128),
                val |-> TextField(r, capnp_read_text(r, e_ptr_section + 8), 512)]>>
                \o MetadataLoop(r, elem_base, elem_dw, elem_stride, elem_count,
                                i + 1)
    ])

\* [ret, type, dest, metadata]
capnp_decode_connect_request(mem, base, len, wild) ==
    Let([m \in {capnp_read_message(mem, base, len, wild)},
         fail \in {[ret |-> -1, type |-> 0, dest |-> <<>>, metadata |-> <<>>]} |->
    Let([root \in {capnp_read_struct_ptr(m.r, 0)} |->
    Let([ptr_section \in {root.off + root.dw * 8} |->
    Let([req \in {[ret |-> 0,
                   type |-> IF root.dw >= 1
                            THEN capnp_read_uint16(m.r, root.off, 0) ELSE 0,
                   dest |-> IF root.pc >= 1
                            THEN TextField(m.r, capnp_read_text(m.r, ptr_section),
                                           512)
                            ELSE <<>>,
                   metadata |-> <<>>]} |->
    Let([list_data_off \in {ptr_section + 8 + 8
                              + OffBytes(PtrOffWords(m.r, ptr_section + 8))} |->
    \* (uint32_t)((int32_t)tag_lo >> 2): a negative value is a huge count
    Let([tag_off \in {PtrOffWords(m.r, list_data_off)},
         elem_dw \in {seg_le16(m.r, list_data_off + 4)},
         elem_pc \in {seg_le16(m.r, list_data_off + 6)} |->
        IF ~m.ok THEN fail
        ELSE IF root.ret # 0 THEN fail
        ELSE IF root.pc < 2 THEN req
        ELSE IF SzGt(ptr_section + 8 + 8, m.r.seg_len) THEN req
        ELSE IF WordIsZero(m.r, ptr_section + 8) THEN req
        ELSE IF SegAt(m.r, ptr_section + 8) % 4 # 1 THEN fail
        ELSE IF SegAt(m.r, ptr_section + 8 + 4) % 8 # 7 THEN req
        ELSE IF SzGt(list_data_off + 8, m.r.seg_len) THEN fail
        ELSE [req EXCEPT !.metadata =
                MetadataLoop(m.r, list_data_off + 8, elem_dw,
                             (elem_dw + elem_pc) * 8,
                             IF tag_off < 0 THEN CF_MAX_METADATA ELSE tag_off, 0)]
    ])])])])])])

\* data_stream_parse_request with the defect of accepting any version
data_stream_parse_request_any_version(data, wild) ==
    LET fail == [ret |-> -1, type |-> 0, dest |-> <<>>, metadata |-> <<>>]
    IN  IF Len(data) < PREAMBLE_LEN THEN fail
        ELSE IF SubSeq(data, 1, 6) # CF_DATA_STREAM_SIGNATURE THEN fail
        ELSE capnp_decode_connect_request(data, PREAMBLE_LEN,
                                          Len(data) - PREAMBLE_LEN, wild)

data_stream_parse_request(data, wild) ==
    LET fail == [ret |-> -1, type |-> 0, dest |-> <<>>, metadata |-> <<>>]
    IN  IF Len(data) < PREAMBLE_LEN THEN fail
        ELSE IF SubSeq(data, 1, 6) # CF_DATA_STREAM_SIGNATURE THEN fail
        ELSE IF SubSeq(data, 7, 8) # CF_DATA_STREAM_VERSION THEN fail
        ELSE capnp_decode_connect_request(data, PREAMBLE_LEN,
                                          Len(data) - PREAMBLE_LEN, wild)

\* The framed size of the request at the start of a data stream: the
\* preamble plus the codec message after it, 0 while that is incomplete.
data_stream_request_size(data) ==
    LET size == capnp_wire_message_size(data, PREAMBLE_LEN,
                                        Len(data) - PREAMBLE_LEN)
    IN  IF Len(data) < PREAMBLE_LEN THEN 0
        ELSE IF size = 0 THEN 0
        ELSE PREAMBLE_LEN + size

RECURSIVE HeaderEntries(_, _)
\* the loop copying the headers, idx entries being in the response already
HeaderEntries(headers, idx) ==
    IF headers = <<>> \/ idx >= CF_MAX_METADATA THEN <<>>
    ELSE <<[key |-> Trunc(Txt.HttpHeader \o Head(headers).key, 128),
            val |-> Trunc(Head(headers).val, 512)]>>
            \o HeaderEntries(Tail(headers), idx + 1)

\* data_stream_build_http_metadata with the defect of adding the HttpStatus
\* entry after the headers
data_stream_build_http_metadata_status_last(status_code, headers) ==
    [error |-> <<>>,
     metadata |-> HeaderEntries(headers, 1)
                    \o <<[key |-> Trunc(Txt.HttpStatus, 128),
                          val |-> Trunc(Dec(status_code), 512)]>>]

\* the cf_connect_response_t built: [error, metadata]
data_stream_build_http_metadata(status_code, headers) ==
    [error |-> <<>>,
     metadata |-> <<[key |-> Trunc(Txt.HttpStatus, 128),
                     val |-> Trunc(Dec(status_code), 512)]>>
                    \o HeaderEntries(headers, 1)]

RECURSIVE WriteElements(_, _, _, _)
\* the loop writing the Metadata elements from element i: the builder
WriteElements(b, list_off, metadata, i) ==
    IF i >= Len(metadata) THEN b
    ELSE
    Let([b1 \in {capnp_write_text(b, list_off + 8 + i * 2 * 8,
                                  metadata[i + 1].key)} |->
    Let([b2 \in {capnp_write_text(b1, list_off + 8 + i * 2 * 8 + 8,
                                  metadata[i + 1].val)} |->
        IF ~b1.ok THEN b1
        ELSE IF ~b2.ok THEN b2
        ELSE WriteElements(b2, list_off, metadata, i + 1)
    ])])

\* [ret, out]
capnp_encode_connect_response(resp, buf_cap) ==
    Let([b0 \in {capnp_builder_init(2048)}, n \in {Len(resp.metadata)} |->
    Let([root_ptr_off \in {capnp_alloc_off(b0, 1)}, b1 \in {capnp_alloc(b0, 1)} |->
    Let([struct_off \in {capnp_alloc_off(b1, 0 + 2)},
         b2 \in {capnp_alloc(b1, 0 + 2)} |->
    Let([b3 \in {IF resp.error # <<>>
                 THEN capnp_write_text(WithStructPtr(b2, root_ptr_off, struct_off,
                                                     0, 2),
                                       struct_off, resp.error)
                 ELSE WithStructPtr(b2, root_ptr_off, struct_off, 0, 2)} |->
    Let([list_off \in {capnp_alloc_off(b3, 1 + n * 2)},
         b4 \in {capnp_alloc(b3, 1 + n * 2)} |->
    Let([b5 \in {Poke(b4, list_off, le32(n * 4) \o le32(0 + 2 * 65536))} |->
    Let([b6 \in {IF n > 0
                 THEN WriteElements(
                          [b5 EXCEPT !.buf =
                              capnp_write_list_ptr(@, struct_off + 8, list_off, 7,
                                                   1 + n * 2)],
                          list_off, resp.metadata, 0)
                 ELSE b3} |->
    Let([capnp \in {capnp_finalize(b6, buf_cap - PREAMBLE_LEN)} |->
        IF buf_cap < PREAMBLE_LEN + 64 THEN EncodeFailed
        ELSE IF root_ptr_off < 0 \/ struct_off < 0 THEN EncodeFailed
        ELSE IF ~b3.ok THEN EncodeFailed
        ELSE IF n > 0 /\ list_off < 0 THEN EncodeFailed
        ELSE IF ~b6.ok THEN EncodeFailed
        ELSE IF Len(capnp) = 0 THEN EncodeFailed
        ELSE [ret |-> 0,
              out |-> CF_DATA_STREAM_SIGNATURE \o CF_DATA_STREAM_VERSION \o capnp]
    ])])])])])])])])

data_stream_build_response(resp, buf_cap) ==
    capnp_encode_connect_response(resp, buf_cap)


(* ------------------------------------------------------------------------ *)
(* State                                                                    *)
(* ------------------------------------------------------------------------ *)

VARIABLES
    ctx,    \* quic_tunnel_ctx_t: cnx, connected, disconnected, streams
    state,  \* tunnel_state_t: registered, registration_sent,
            \* control_stream_id, ctrl_parsed_offset
    pq,     \* the transport connection as the code drives and observes it
    net,    \* per stream: the inbound bytes the peer has not delivered yet,
            \* as the runs between the points where the stream may be cut
    cfg,    \* quic_tunnel_config_t: the event callback, and the credentials
    hist    \* history of observable calls (not read by the program)

vars == <<ctx, state, pq, net, cfg, hist>>

\* UINT64_MAX, the failure value of quic_tunnel_open_stream
NoStream == -1

\* number of client-initiated bidirectional streams the model opens
MaxLocal == 1

\* number of server-initiated bidirectional streams of the model
MaxRemote == 1

\* client-initiated bidirectional stream ids are 0, 4, 8, ...;
\* server-initiated ones are 1, 5, 9, ...
LocalIds == {4 * i : i \in 0..(MaxLocal - 1)}

RemoteIds == {4 * i + 1 : i \in 0..(MaxRemote - 1)}

StreamIds == LocalIds \cup RemoteIds

\* NewStreamCtx with the defect of flagging every record as control
NewStreamCtxAllControl(stream_id, is_control) ==
    [stream_id |-> stream_id, is_control |-> TRUE,
     send_buf |-> <<>>, send_offset |-> 0, send_fin |-> FALSE,
     recv_buf |-> <<>>, recv_cap |-> 0, recv_fin |-> FALSE,
     request_handled |-> FALSE]

\* calloc(1, sizeof(stream_ctx_t)) with the id and the role set
NewStreamCtx(stream_id, is_control) ==
    [stream_id |-> stream_id, is_control |-> is_control,
     send_buf |-> <<>>, send_offset |-> 0, send_fin |-> FALSE,
     recv_buf |-> <<>>, recv_cap |-> 0, recv_fin |-> FALSE,
     request_handled |-> FALSE]

\* A handler runs on a world w: the state variables as a record, plus the
\* choices the environment makes during the handler: fault = which of the
\* handler's fallible library calls fails (0 = none; nfc counts them),
\* origin = what the origin server answers, and wild = the byte a read
\* outside the receive buffer yields.
World(fault, origin, wild) ==
    [ctx |-> ctx, state |-> state, pq |-> pq, cfg |-> cfg, hist |-> hist,
     fault |-> fault, nfc |-> 0, origin |-> origin, wild |-> wild]

\* whether the next fallible library call of the handler fails
FailsNext(w) == w.nfc + 1 = w.fault

\* the world after a fallible library call
Called(w) == [w EXCEPT !.nfc = @ + 1]

(* ------------------------------------------------------------------------ *)
(* Multiplexer (quic_tunnel.c)                                              *)
(* ------------------------------------------------------------------------ *)

RECURSIVE FindFrom(_, _, _)
FindFrom(streams, stream_id, i) ==
    IF i > Len(streams) THEN 0
    ELSE IF streams[i].stream_id = stream_id THEN i
    ELSE FindFrom(streams, stream_id, i + 1)

\* index in the list of the record found, 0 for NULL
quic_tunnel_find_stream(w, stream_id) == FindFrom(w.ctx.streams, stream_id, 1)

\* [w, ok]: the new record is the head of the list
stream_ctx_create(w, stream_id, is_control) ==
    IF FailsNext(w) THEN [w |-> Called(w), ok |-> FALSE]
    ELSE [w |-> [Called(w) EXCEPT !.ctx.streams =
                    <<NewStreamCtx(stream_id, is_control)>> \o @],
          ok |-> TRUE]

\* stream_ctx_destroy with the defect of leaving the record in the list
stream_ctx_destroy_keep(w, stream_id) == w

stream_ctx_destroy(w, stream_id) ==
    Let([i \in {quic_tunnel_find_stream(w, stream_id)} |->
        IF i = 0 THEN w
        ELSE [w EXCEPT !.ctx.streams =
                SubSeq(@, 1, i - 1) \o SubSeq(@, i + 1, Len(@))]
    ])

RECURSIVE GrowCap(_, _)
GrowCap(new_cap, needed) ==
    IF new_cap < needed THEN GrowCap(new_cap * 2, needed) ELSE new_cap

\* recv_buf_append with the defect of writing the new bytes at the front
recv_buf_append_front(w, i, data) ==
    IF Len(data) = 0 THEN [w |-> w, ok |-> TRUE]
    ELSE [w |-> [w EXCEPT !.ctx.streams[i].recv_buf = data \o @], ok |-> TRUE]

\* [w, ok] for the record at index i
recv_buf_append(w, i, data) ==
    Let([sc \in {w.ctx.streams[i]} |->
    Let([needed \in {Len(sc.recv_buf) + Len(data)} |->
        IF Len(data) = 0 THEN [w |-> w, ok |-> TRUE]
        ELSE IF needed <= sc.recv_cap
        THEN [w |-> [w EXCEPT !.ctx.streams[i].recv_buf = @ \o data], ok |-> TRUE]
        ELSE IF FailsNext(w) THEN [w |-> Called(w), ok |-> FALSE]
        ELSE [w |-> [Called(w) EXCEPT
                        !.ctx.streams[i].recv_buf = @ \o data,
                        !.ctx.streams[i].recv_cap =
                            GrowCap(IF sc.recv_cap # 0 THEN sc.recv_cap * 2
                                    ELSE 4096, needed)],
              ok |-> TRUE]
    ])])

\* picoquic_mark_active_stream(cnx, stream_id, 1, sc): [w, ok]
MarkActive(w, stream_id) ==
    IF FailsNext(w) THEN [w |-> Called(w), ok |-> FALSE]
    ELSE [w |-> [Called(w) EXCEPT
                    !.pq.app_ctx = @ \cup {stream_id},
                    !.pq.active = @ \cup {stream_id},
                    !.pq.next_local =
                        IF stream_id = @ THEN @ + 4 ELSE @],
          ok |-> TRUE]

\* [w, id]
quic_tunnel_open_stream(w, is_control) ==
    Let([r \in {
        IF ~w.ctx.cnx THEN [w |-> w, id |-> NoStream]
        ELSE
        Let([c \in {stream_ctx_create(w, w.pq.next_local, is_control)} |->
            IF ~c.ok THEN [w |-> c.w, id |-> NoStream]
            ELSE
            Let([m \in {MarkActive(c.w, w.pq.next_local)} |->
                IF ~m.ok
                THEN [w |-> stream_ctx_destroy(m.w, w.pq.next_local),
                      id |-> NoStream]
                ELSE [w |-> m.w, id |-> w.pq.next_local]
            ])
        ])} |->
        [w  |-> [r.w EXCEPT !.hist.opens =
                    Append(@, [id |-> r.id, is_control |-> is_control])],
         id |-> r.id]
    ])

\* quic_tunnel_send with the defect of copying the new bytes to the start of
\* the buffer instead of tmp + send_len
quic_tunnel_send_front(w, stream_id, data, has_data, fin) ==
    Let([i \in {quic_tunnel_find_stream(w, stream_id)} |->
        IF i = 0 THEN [w |-> [w EXCEPT !.hist.nsends = @ + 1], ret |-> -1]
        ELSE [w |-> MarkActive([w EXCEPT !.ctx.streams[i].send_buf = data \o @,
                                         !.hist.queued[stream_id] = @ \o data,
                                         !.hist.nsends = @ + 1],
                               stream_id).w,
              ret |-> 0]
    ])

\* quic_tunnel_send with the defect of recording the FIN before the send
\* buffer is grown
quic_tunnel_send_fin_first(w, stream_id, data, has_data, fin) ==
    Let([i \in {quic_tunnel_find_stream(w, stream_id)},
         queues \in {Len(data) > 0 /\ has_data} |->
    Let([r \in {
        IF ~w.ctx.cnx THEN [w |-> w, ret |-> -1, queued |-> FALSE]
        ELSE IF i = 0 THEN [w |-> w, ret |-> -1, queued |-> FALSE]
        ELSE IF queues /\ FailsNext(w)
        THEN [w |-> [Called(w) EXCEPT
                        !.ctx.streams[i].send_fin = IF fin THEN TRUE ELSE @],
              ret |-> -1, queued |-> FALSE]
        ELSE
        Let([m \in {MarkActive(
                        [(IF queues THEN Called(w) ELSE w) EXCEPT
                            !.ctx.streams[i].send_buf =
                                IF queues THEN @ \o data ELSE @,
                            !.ctx.streams[i].send_fin = IF fin THEN TRUE ELSE @],
                        stream_id)} |->
            [w |-> m.w, ret |-> IF m.ok THEN 0 ELSE -1, queued |-> queues]
        ])} |->
        [w   |-> [r.w EXCEPT
                    !.hist.sends[stream_id] =
                        IF w.cfg.record_sends
                        THEN Append(@, [data |-> data, fin |-> fin, ret |-> r.ret])
                        ELSE @,
                    !.hist.queued[stream_id] = IF r.queued THEN @ \o data ELSE @,
                    !.hist.nsends = @ + 1],
         ret |-> r.ret]
    ])])

\* [w, ret]; has_data is data != NULL
quic_tunnel_send(w, stream_id, data, has_data, fin) ==
    Let([i \in {quic_tunnel_find_stream(w, stream_id)},
         queues \in {Len(data) > 0 /\ has_data} |->
    \* r.queued: whether the bytes were appended to the send buffer
    Let([r \in {
        IF ~w.ctx.cnx THEN [w |-> w, ret |-> -1, queued |-> FALSE]
        ELSE IF i = 0 THEN [w |-> w, ret |-> -1, queued |-> FALSE]
        ELSE IF queues /\ FailsNext(w)
        THEN [w |-> Called(w), ret |-> -1, queued |-> FALSE]
        ELSE
        Let([m \in {MarkActive(
                        [(IF queues THEN Called(w) ELSE w) EXCEPT
                            !.ctx.streams[i].send_buf =
                                IF queues THEN @ \o data ELSE @,
                            !.ctx.streams[i].send_fin = IF fin THEN TRUE ELSE @],
                        stream_id)} |->
            [w |-> m.w, ret |-> IF m.ok THEN 0 ELSE -1, queued |-> queues]
        ])} |->
        [w   |-> [r.w EXCEPT
                    !.hist.sends[stream_id] =
                        IF w.cfg.record_sends
                        THEN Append(@, [data |-> data, fin |-> fin, ret |-> r.ret])
                        ELSE @,
                    !.hist.queued[stream_id] = IF r.queued THEN @ \o data ELSE @,
                    !.hist.nsends = @ + 1],
         ret |-> r.ret]
    ])])

\* picoquic_close(cnx, 0)
quic_tunnel_close(w) ==
    IF ~w.ctx.cnx THEN w ELSE [w EXCEPT !.pq.close_calls = @ + 1]

(* ------------------------------------------------------------------------ *)
(* Tunnel state machine (tunnel_main.c)                                     *)
(* ------------------------------------------------------------------------ *)

RECURSIVE ParseLoopClosing(_)
\* ParseLoop with the defect of closing the connection when the decoder
\* returns non-zero
ParseLoopClosing(w) ==
    Let([sc \in {w.ctx.streams[quic_tunnel_find_stream(
                                   w, w.state.control_stream_id)]},
         off \in {w.state.ctrl_parsed_offset} |->
        IF off >= Len(sc.recv_buf) THEN w
        ELSE
        Let([msg_size \in {capnp_wire_message_size(sc.recv_buf, off,
                                                   Len(sc.recv_buf) - off)} |->
            IF msg_size = 0 THEN w
            ELSE
            Let([result \in {control_stream_decode_response(
                                 sc.recv_buf, off, msg_size, w.wild)} |->
            Let([w1 \in {IF result.ret = 0 /\ result.success
                         THEN [w EXCEPT !.state.registered = TRUE]
                         ELSE quic_tunnel_close(w)} |->
                ParseLoopClosing(
                    [w1 EXCEPT
                        !.state.ctrl_parsed_offset = @ + msg_size,
                        !.hist.decodes =
                            Append(@, [off |-> off,
                                       msg |-> Slice(sc.recv_buf, off, msg_size),
                                       result |-> result,
                                       registered |-> <<w.state.registered,
                                                        w1.state.registered>>,
                                       close_calls |-> <<w.pq.close_calls,
                                                         w1.pq.close_calls>>])])
            ])])
        ])
    ])

RECURSIVE ParseLoop(_)
\* the while loop of try_parse_control_messages
ParseLoop(w) ==
    Let([sc \in {w.ctx.streams[quic_tunnel_find_stream(
                                   w, w.state.control_stream_id)]},
         off \in {w.state.ctrl_parsed_offset} |->
        IF off >= Len(sc.recv_buf) THEN w
        ELSE
        Let([msg_size \in {capnp_wire_message_size(sc.recv_buf, off,
                                                   Len(sc.recv_buf) - off)} |->
            IF msg_size = 0 THEN w
            ELSE
            Let([result \in {control_stream_decode_response(
                                 sc.recv_buf, off, msg_size, w.wild)} |->
            Let([w1 \in {IF result.ret = 0 /\ result.success
                         THEN [w EXCEPT !.state.registered = TRUE]
                         ELSE IF result.ret = 0 /\ result.error # <<>>
                         THEN quic_tunnel_close(w)
                         ELSE w} |->
                ParseLoop(
                    [w1 EXCEPT
                        !.state.ctrl_parsed_offset = @ + msg_size,
                        !.hist.decodes =
                            Append(@, [off |-> off,
                                       msg |-> Slice(sc.recv_buf, off, msg_size),
                                       result |-> result,
                                       registered |-> <<w.state.registered,
                                                        w1.state.registered>>,
                                       close_calls |-> <<w.pq.close_calls,
                                                         w1.pq.close_calls>>])])
            ])])
        ])
    ])

try_parse_control_messages(w) ==
    Let([i \in {quic_tunnel_find_stream(w, w.state.control_stream_id)} |->
        IF i = 0 THEN w
        ELSE IF w.ctx.streams[i].recv_cap = 0 THEN w
        ELSE ParseLoop(w)
    ])

\* http_proxy_forward as the state machine sees it: the origin's answer
\* [ret, status_code, headers, body], the call recorded
http_proxy_forward(w, stream_id, req, body, req_hdr_size) ==
    [w EXCEPT !.hist.forwards =
        Append(@, [stream_id |-> stream_id, req |-> req, body |-> body,
                   req_hdr_size |-> req_hdr_size, origin |-> w.origin])]

\* try_handle_data_stream with the defect of ending the stream before the
\* response header is queued
try_handle_data_stream_fin_first(w, stream_id) ==
    Let([i \in {quic_tunnel_find_stream(w, stream_id)} |->
        IF i = 0 THEN w
        ELSE IF w.ctx.streams[i].request_handled THEN w
        ELSE IF data_stream_request_size(w.ctx.streams[i].recv_buf) = 0 THEN w
        ELSE quic_tunnel_send(
                 quic_tunnel_send(
                     [w EXCEPT !.ctx.streams[i].request_handled = TRUE],
                     stream_id, <<>>, FALSE, TRUE).w,
                 stream_id,
                 data_stream_build_response(
                     data_stream_build_http_metadata(502, <<>>), 4096).out,
                 TRUE, FALSE).w
    ])

\* try_handle_data_stream with the defect of not looking at request_handled
try_handle_data_stream_rehandle(w, stream_id) ==
    Let([i \in {quic_tunnel_find_stream(w, stream_id)} |->
        IF i = 0 THEN w
        ELSE
        Let([sc \in {w.ctx.streams[i]} |->
        Let([req_hdr_size \in {data_stream_request_size(sc.recv_buf)} |->
            IF req_hdr_size = 0 THEN w
            ELSE
            Let([w1 \in {[w EXCEPT !.ctx.streams[i].request_handled = TRUE]},
                 req \in {data_stream_parse_request(sc.recv_buf, w.wild)} |->
                IF req.ret # 0 THEN w1
                ELSE
                Let([w2 \in {http_proxy_forward(
                                 w1, stream_id, req,
                                 IF req_hdr_size < Len(sc.recv_buf)
                                 THEN Slice(sc.recv_buf, req_hdr_size,
                                            Len(sc.recv_buf) - req_hdr_size)
                                 ELSE <<>>,
                                 req_hdr_size)},
                     enc \in {data_stream_build_response(
                                 data_stream_build_http_metadata(
                                     IF w.origin.ret # 0 THEN 502
                                     ELSE w.origin.status_code,
                                     w.origin.headers),
                                 4096)} |->
                    IF enc.ret # 0 THEN w2
                    ELSE
                    Let([s1 \in {quic_tunnel_send(w2, stream_id, enc.out, TRUE,
                                                  FALSE)} |->
                        IF s1.ret # 0 THEN s1.w
                        ELSE IF Len(w.origin.body) > 0
                        THEN quic_tunnel_send(s1.w, stream_id, w.origin.body,
                                              TRUE, TRUE).w
                        ELSE quic_tunnel_send(s1.w, stream_id, <<>>, FALSE,
                                              TRUE).w
                    ])
                ])
            ])
        ])])
    ])

\* try_handle_data_stream with the defect of ending the stream when the
\* request cannot be parsed
try_handle_data_stream_fin_on_error(w, stream_id) ==
    Let([i \in {quic_tunnel_find_stream(w, stream_id)} |->
        IF i = 0 THEN w
        ELSE
        Let([sc \in {w.ctx.streams[i]} |->
        Let([req_hdr_size \in {data_stream_request_size(sc.recv_buf)} |->
            IF sc.request_handled THEN w
            ELSE IF req_hdr_size = 0 THEN w
            ELSE
            Let([w1 \in {[w EXCEPT !.ctx.streams[i].request_handled = TRUE]},
                 req \in {data_stream_parse_request(sc.recv_buf, w.wild)} |->
                IF req.ret # 0
                THEN quic_tunnel_send(w1, stream_id, <<>>, FALSE, TRUE).w
                ELSE
                Let([w2 \in {http_proxy_forward(
                                 w1, stream_id, req,
                                 IF req_hdr_size < Len(sc.recv_buf)
                                 THEN Slice(sc.recv_buf, req_hdr_size,
                                            Len(sc.recv_buf) - req_hdr_size)
                                 ELSE <<>>,
                                 req_hdr_size)},
                     enc \in {data_stream_build_response(
                                 data_stream_build_http_metadata(
                                     IF w.origin.ret # 0 THEN 502
                                     ELSE w.origin.status_code,
                                     w.origin.headers),
                                 4096)} |->
                    IF enc.ret # 0 THEN w2
                    ELSE
                    Let([s1 \in {quic_tunnel_send(w2, stream_id, enc.out, TRUE,
                                                  FALSE)} |->
                        IF s1.ret # 0 THEN s1.w
                        ELSE IF Len(w.origin.body) > 0
                        THEN quic_tunnel_send(s1.w, stream_id, w.origin.body,
                                              TRUE, TRUE).w
                        ELSE quic_tunnel_send(s1.w, stream_id, <<>>, FALSE,
                                              TRUE).w
                    ])
                ])
            ])
        ])])
    ])

try_handle_data_stream(w, stream_id) ==
    Let([i \in {quic_tunnel_find_stream(w, stream_id)} |->
        IF i = 0 THEN w
        ELSE
        Let([sc \in {w.ctx.streams[i]} |->
        Let([req_hdr_size \in {data_stream_request_size(sc.recv_buf)} |->
            IF sc.request_handled THEN w
            ELSE IF req_hdr_size = 0 THEN w
            ELSE
            Let([w1 \in {[w EXCEPT !.ctx.streams[i].request_handled = TRUE]},
                 req \in {data_stream_parse_request(sc.recv_buf, w.wild)} |->
                IF req.ret # 0 THEN w1
                ELSE
                Let([w2 \in {http_proxy_forward(
                                 w1, stream_id, req,
                                 IF req_hdr_size < Len(sc.recv_buf)
                                 THEN Slice(sc.recv_buf, req_hdr_size,
                                            Len(sc.recv_buf) - req_hdr_size)
                                 ELSE <<>>,
                                 req_hdr_size)},
                     enc \in {data_stream_build_response(
                                 data_stream_build_http_metadata(
                                     IF w.origin.ret # 0 THEN 502
                                     ELSE w.origin.status_code,
                                     w.origin.headers),
                                 4096)} |->
                    IF enc.ret # 0 THEN w2
                    ELSE
                    Let([s1 \in {quic_tunnel_send(w2, stream_id, enc.out, TRUE,
                                                  FALSE)} |->
                        IF s1.ret # 0 THEN s1.w
                        ELSE IF Len(w.origin.body) > 0
                        THEN quic_tunnel_send(s1.w, stream_id, w.origin.body,
                                              TRUE, TRUE).w
                        ELSE quic_tunnel_send(s1.w, stream_id, <<>>, FALSE,
                                              TRUE).w
                    ])
                ])
            ])
        ])])
    ])

\* case QT_EVENT_CONNECTED with the defect of ending the control stream with
\* the registration request (fin = true)
OnConnectedFin(w) ==
    Let([o \in {quic_tunnel_open_stream(w, TRUE)} |->
    Let([w1 \in {[o.w EXCEPT !.state.control_stream_id = o.id]} |->
        IF o.id = NoStream THEN quic_tunnel_close(w1)
        ELSE
        Let([enc \in {control_stream_encode_register(
                          w.state.auth, w.state.tunnel_id_bytes, 0,
                          w.state.conn_options, 4096)} |->
            IF enc.ret # 0 THEN quic_tunnel_close(w1)
            ELSE
            Let([s1 \in {quic_tunnel_send(w1, o.id, enc.out, TRUE, TRUE)} |->
                IF s1.ret # 0 THEN quic_tunnel_close(s1.w)
                ELSE [s1.w EXCEPT !.state.registration_sent = TRUE]
            ])
        ])
    ])])

\* case QT_EVENT_CONNECTED
OnConnected(w) ==
    Let([o \in {quic_tunnel_open_stream(w, TRUE)} |->
    Let([w1 \in {[o.w EXCEPT !.state.control_stream_id = o.id]} |->
        IF o.id = NoStream THEN quic_tunnel_close(w1)
        ELSE
        Let([enc \in {control_stream_encode_register(
                          w.state.auth, w.state.tunnel_id_bytes, 0,
                          w.state.conn_options, 4096)} |->
            IF enc.ret # 0 THEN quic_tunnel_close(w1)
            ELSE
            Let([s1 \in {quic_tunnel_send(w1, o.id, enc.out, TRUE, FALSE)} |->
                IF s1.ret # 0 THEN quic_tunnel_close(s1.w)
                ELSE [s1.w EXCEPT !.state.registration_sent = TRUE]
            ])
        ])
    ])])

\* full_tunnel_event_cb with the defect of ignoring the events that follow
\* the state machine's close()
full_tunnel_event_cb_until_close(w, event, stream_id, data) ==
    IF w.pq.close_calls > 0 THEN w
    ELSE IF event = "Connected" THEN OnConnected(w)
    ELSE IF event \in {"StreamData", "StreamFin"}
    THEN IF stream_id = w.state.control_stream_id
         THEN try_parse_control_messages(w)
         ELSE try_handle_data_stream(w, stream_id)
    ELSE w

full_tunnel_event_cb(w, event, stream_id, data) ==
    IF event = "Connected" THEN OnConnected(w)
    ELSE IF event \in {"StreamData", "StreamFin"}
    THEN IF stream_id = w.state.control_stream_id
         THEN try_parse_control_messages(w)
         ELSE try_handle_data_stream(w, stream_id)
    ELSE w


(* ------------------------------------------------------------------------ *)
(* Event dispatch: ctx->event_cb(ctx, event, stream_id, data, len, user).   *)
(* ------------------------------------------------------------------------ *)

event_cb(w, event, stream_id, data) ==
    Let([w1 \in {IF w.cfg.record_events
                 THEN [w EXCEPT !.hist.events[stream_id] =
                         Append(@, [ev |-> event, data |-> data,
                                    rec |-> quic_tunnel_find_stream(w, stream_id) # 0,
                                    connected |-> w.ctx.connected,
                                    disconnected |-> w.ctx.disconnected])]
                 ELSE w} |->
        IF w.cfg.event_cb = "full"
        THEN full_tunnel_event_cb(w1, event, stream_id, data)
        ELSE w1
    ])

(* ------------------------------------------------------------------------ *)
(* tunnel_picoquic_callback, one operator per event: [w, ret].              *)
(* v_stream_ctx is the record registered with the transport for the stream, *)
(* NULL when stream_id is not in pq.app_ctx.                                *)
(* ------------------------------------------------------------------------ *)

PICOQUIC_ERROR_MEMORY == 1045

PICOQUIC_ERROR_UNEXPECTED_ERROR == 1046

cb_ready(w) ==
    [w |-> event_cb([w EXCEPT !.ctx.connected = TRUE], "Connected", NoStream, <<>>),
     ret |-> 0]

\* picoquic_callback_close, _application_close and _stateless_reset
cb_close(w) ==
    [w |-> event_cb([w EXCEPT !.ctx.disconnected = TRUE], "Disconnected",
                    NoStream, <<>>),
     ret |-> 0]

\* cb_receive with the defect of announcing the stream on every callback
cb_receive_reopen(w, stream_id, bytes) ==
    Let([w1 \in {event_cb(
                    [(IF quic_tunnel_find_stream(w, stream_id) = 0
                      THEN stream_ctx_create(w, stream_id, FALSE).w
                      ELSE w) EXCEPT !.pq.app_ctx = @ \cup {stream_id}],
                    "StreamOpenedRemote", stream_id, <<>>)} |->
        [w |-> IF Len(bytes) > 0
               THEN event_cb(
                        recv_buf_append(
                            w1, quic_tunnel_find_stream(w1, stream_id), bytes).w,
                        "StreamData", stream_id, bytes)
               ELSE w1,
         ret |-> 0]
    ])

\* cb_receive with the defect of creating a record whether or not the
\* stream has one
cb_receive_always_new(w, stream_id, bytes) ==
    \* o: the world once the stream has its record, ok = FALSE when the
    \* record could not be allocated
    Let([o \in {
        IF FALSE THEN [w |-> w, ok |-> TRUE]
        ELSE
        Let([c \in {stream_ctx_create(w, stream_id, FALSE)} |->
            IF ~c.ok THEN c
            ELSE [w  |-> event_cb([c.w EXCEPT !.pq.app_ctx = @ \cup {stream_id}],
                                  "StreamOpenedRemote", stream_id, <<>>),
                  ok |-> TRUE]
        ])} |->
        IF ~o.ok THEN [w |-> o.w, ret |-> PICOQUIC_ERROR_MEMORY]
        ELSE IF Len(bytes) = 0 THEN [w |-> o.w, ret |-> 0]
        ELSE
        Let([a \in {recv_buf_append(
                        o.w, quic_tunnel_find_stream(o.w, stream_id), bytes)} |->
            IF ~a.ok THEN [w |-> a.w, ret |-> PICOQUIC_ERROR_MEMORY]
            ELSE [w |-> event_cb(a.w, "StreamData", stream_id, bytes), ret |-> 0]
        ])
    ])

\* the part common to stream_data and stream_fin: [w, ret]
cb_receive(w, stream_id, bytes) ==
    \* o: the world once the stream has its record, ok = FALSE when the
    \* record could not be allocated
    Let([o \in {
        IF stream_id \in w.pq.app_ctx THEN [w |-> w, ok |-> TRUE]
        ELSE
        Let([c \in {stream_ctx_create(w, stream_id, FALSE)} |->
            IF ~c.ok THEN c
            ELSE [w  |-> event_cb([c.w EXCEPT !.pq.app_ctx = @ \cup {stream_id}],
                                  "StreamOpenedRemote", stream_id, <<>>),
                  ok |-> TRUE]
        ])} |->
        IF ~o.ok THEN [w |-> o.w, ret |-> PICOQUIC_ERROR_MEMORY]
        ELSE IF Len(bytes) = 0 THEN [w |-> o.w, ret |-> 0]
        ELSE
        Let([a \in {recv_buf_append(
                        o.w, quic_tunnel_find_stream(o.w, stream_id), bytes)} |->
            IF ~a.ok THEN [w |-> a.w, ret |-> PICOQUIC_ERROR_MEMORY]
            ELSE [w |-> event_cb(a.w, "StreamData", stream_id, bytes), ret |-> 0]
        ])
    ])

cb_stream_data(w, stream_id, bytes) == cb_receive(w, stream_id, bytes)

cb_stream_fin(w, stream_id, bytes) ==
    Let([r \in {cb_receive(w, stream_id, bytes)} |->
        IF r.ret # 0 THEN r
        ELSE
        Let([i \in {quic_tunnel_find_stream(r.w, stream_id)} |->
            [w |-> event_cb([r.w EXCEPT !.ctx.streams[i].recv_fin = TRUE],
                            "StreamFin", stream_id, r.w.ctx.streams[i].recv_buf),
             ret |-> 0]
        ])
    ])

\* cb_prepare_to_send with the defect of never releasing the send buffer
cb_prepare_to_send_keep_buffer(w, stream_id, length) ==
    IF stream_id \notin w.pq.app_ctx
    THEN [w |-> [w EXCEPT !.pq.active = @ \ {stream_id}], ret |-> 0]
    ELSE
    Let([i \in {quic_tunnel_find_stream(w, stream_id)} |->
    Let([sc \in {w.ctx.streams[i]} |->
    Let([send_len \in {Len(sc.send_buf)} |->
    Let([to_send \in {Min(send_len - sc.send_offset, length)} |->
    Let([is_fin \in {sc.send_fin /\ sc.send_offset + to_send >= send_len} |->
        IF send_len - sc.send_offset = 0 /\ ~sc.send_fin
        THEN [w |-> [w EXCEPT !.pq.active = @ \ {stream_id}], ret |-> 0]
        ELSE IF FailsNext(w)
        THEN [w |-> Called(w), ret |-> PICOQUIC_ERROR_UNEXPECTED_ERROR]
        ELSE
        \* picoquic_provide_stream_data_buffer, the copy, then the release of
        \* a fully consumed buffer
        Let([released \in {FALSE} |->
            [w |-> [Called(w) EXCEPT
                      !.pq.active =
                          IF ~is_fin /\ sc.send_offset + to_send < send_len
                          THEN @ ELSE @ \ {stream_id},
                      !.pq.fin_sent = IF is_fin THEN @ \cup {stream_id} ELSE @,
                      !.hist.pulled[stream_id] =
                          @ \o Slice(sc.send_buf, sc.send_offset, to_send),
                      !.hist.pull_fins[stream_id] = IF is_fin THEN @ + 1 ELSE @,
                      !.ctx.streams[i].send_offset =
                          IF released THEN 0 ELSE @ + to_send,
                      !.ctx.streams[i].send_buf = IF released THEN <<>> ELSE @,
                      !.ctx.streams[i].send_fin =
                          IF released /\ is_fin THEN FALSE ELSE @],
             ret |-> 0]
        ])
    ])])])])])

cb_prepare_to_send(w, stream_id, length) ==
    IF stream_id \notin w.pq.app_ctx
    THEN [w |-> [w EXCEPT !.pq.active = @ \ {stream_id}], ret |-> 0]
    ELSE
    Let([i \in {quic_tunnel_find_stream(w, stream_id)} |->
    Let([sc \in {w.ctx.streams[i]} |->
    Let([send_len \in {Len(sc.send_buf)} |->
    Let([to_send \in {Min(send_len - sc.send_offset, length)} |->
    Let([is_fin \in {sc.send_fin /\ sc.send_offset + to_send >= send_len} |->
        IF send_len - sc.send_offset = 0 /\ ~sc.send_fin
        THEN [w |-> [w EXCEPT !.pq.active = @ \ {stream_id}], ret |-> 0]
        ELSE IF FailsNext(w)
        THEN [w |-> Called(w), ret |-> PICOQUIC_ERROR_UNEXPECTED_ERROR]
        ELSE
        \* picoquic_provide_stream_data_buffer, the copy, then the release of
        \* a fully consumed buffer
        Let([released \in {sc.send_offset + to_send >= send_len} |->
            [w |-> [Called(w) EXCEPT
                      !.pq.active =
                          IF ~is_fin /\ sc.send_offset + to_send < send_len
                          THEN @ ELSE @ \ {stream_id},
                      !.pq.fin_sent = IF is_fin THEN @ \cup {stream_id} ELSE @,
                      !.hist.pulled[stream_id] =
                          @ \o Slice(sc.send_buf, sc.send_offset, to_send),
                      !.hist.pull_fins[stream_id] = IF is_fin THEN @ + 1 ELSE @,
                      !.ctx.streams[i].send_offset =
                          IF released THEN 0 ELSE @ + to_send,
                      !.ctx.streams[i].send_buf = IF released THEN <<>> ELSE @,
                      !.ctx.streams[i].send_fin =
                          IF released /\ is_fin THEN FALSE ELSE @],
             ret |-> 0]
        ])
    ])])])])])

cb_stream_reset(w, stream_id) ==
    IF stream_id \in w.pq.app_ctx
    THEN [w |-> stream_ctx_destroy(
                    [w EXCEPT !.pq.app_ctx = @ \ {stream_id},
                              !.pq.active = @ \ {stream_id}], stream_id),
          ret |-> 0]
    ELSE [w |-> w, ret |-> 0]

\* picoquic_reset_stream(cnx, stream_id, 0)
cb_stop_sending(w, stream_id) ==
    IF stream_id \in w.pq.app_ctx
    THEN [w |-> [w EXCEPT !.pq.reset_out = @ \cup {stream_id},
                          !.pq.active = @ \ {stream_id}],
          ret |-> 0]
    ELSE [w |-> w, ret |-> 0]

(* ------------------------------------------------------------------------ *)
(* Actions: one per transport callback and per API call.                    *)
(* ------------------------------------------------------------------------ *)

\* bound on the number of send() calls of the free client
MaxSends == 2

\* longest byte run the free client passes to one send()
MaxSendLen == 2

\* bound on the number of open_stream() calls of the free client
MaxOpens == 1

\* bound on the number of close() calls of the free client
MaxCloses == 1

\* largest window the transport offers a free client in one prepare-to-send
MaxWindow == 2

\* inbound bytes per stream in the receive-path specification
MaxIn == 2

\* http_proxy_forward returned -1 without touching the response
OriginFailed == [ret |-> -1, status_code |-> 0, headers |-> <<>>, body |-> <<>>]

\* 200 with no header and no body
OriginEmpty == [ret |-> 0, status_code |-> 200, headers |-> <<>>, body |-> <<>>]

\* 200 with one header and a body
OriginBody ==
    [ret |-> 0, status_code |-> 200,
     headers |-> <<[key |-> <<88>>, val |-> <<121>>]>>, body |-> <<111, 107>>]

\* the handler does not reach the origin
NoOrigin == OriginFailed

\* the string literals of http_proxy_forward and set_bad_gateway, and "502"
ProxyTxt ==
    [
      \* "Content-Type"
        ContentType |-> <<67, 111, 110, 116, 101, 110, 116, 45, 84, 121, 112,
            101>>,
      \* "text/plain"
        TextPlain |-> <<116, 101, 120, 116, 47, 112, 108, 97, 105, 110>>,
      \* "502 Bad Gateway: "
        BadGateway |-> <<53, 48, 50, 32, 66, 97, 100, 32, 71, 97, 116, 101,
            119, 97, 121, 58, 32>>,
      \* "connection to origin failed"
        ConnectFailed |-> <<99, 111, 110, 110, 101, 99, 116, 105, 111, 110,
            32, 116, 111, 32, 111, 114, 105, 103, 105, 110, 32, 102, 97, 105,
            108, 101, 100>>,
      \* "failed to send request to origin"
        SendFailed |-> <<102, 97, 105, 108, 101, 100, 32, 116, 111, 32, 115,
            101, 110, 100, 32, 114, 101, 113, 117, 101, 115, 116, 32, 116,
            111, 32, 111, 114, 105, 103, 105, 110>>,
      \* "failed to read response from origin"
        ReadFailed |-> <<102, 97, 105, 108, 101, 100, 32, 116, 111, 32, 114,
            101, 97, 100, 32, 114, 101, 115, 112, 111, 110, 115, 101, 32,
            102, 114, 111, 109, 32, 111, 114, 105, 103, 105, 110>>,
      \* "502"
        Status502 |-> <<53, 48, 50>>
    ]

\* set_bad_gateway with the defect of keeping the status code the response
\* already has
set_bad_gateway_keep_status(resp, reason, body_ok) ==
    [resp EXCEPT
        !.headers = <<[key |-> ProxyTxt.ContentType, val |-> ProxyTxt.TextPlain]>>,
        !.body = IF body_ok THEN ProxyTxt.BadGateway \o reason ELSE <<>>]

\* set_bad_gateway(resp, reason); body_ok: malloc returned a buffer for the
\* body.  A response is [ret, status_code, headers, body], headers holding
\* the header_count first entries.
set_bad_gateway(resp, reason, body_ok) ==
    [resp EXCEPT
        !.status_code = 502,
        !.headers = <<[key |-> ProxyTxt.ContentType, val |-> ProxyTxt.TextPlain]>>,
        !.body = IF body_ok THEN ProxyTxt.BadGateway \o reason ELSE <<>>]

\* the response zeroed by the memset of http_proxy_forward
RespZero == [ret |-> 0, status_code |-> 0, headers |-> <<>>, body |-> <<>>]

\* What an initialised http_proxy_forward returns when the step fails
\* ("connect", "send" or "read"); read is what read_http_response had stored
\* in the response before it failed.
ForwardFailure(step, read, body_ok) ==
    IF step = "connect"
    THEN set_bad_gateway(RespZero, ProxyTxt.ConnectFailed, body_ok)
    ELSE IF step = "send"
    THEN set_bad_gateway(RespZero, ProxyTxt.SendFailed, body_ok)
    ELSE set_bad_gateway(read, ProxyTxt.ReadFailed, body_ok)

\* the failures of http_proxy_forward: the origin refuses the connection,
\* the request cannot be sent, the response cannot be read (before its
\* status line, or after status and headers were stored), and a failure
\* with no memory left for the body of the 502
OriginFailures ==
    { ForwardFailure("connect", RespZero, TRUE),
      ForwardFailure("send", RespZero, TRUE),
      ForwardFailure("read", RespZero, TRUE),
      ForwardFailure("read", [OriginBody EXCEPT !.body = <<>>], TRUE),
      ForwardFailure("read", RespZero, FALSE) }

ctx0 == [cnx |-> TRUE, connected |-> FALSE, disconnected |-> FALSE,
         streams |-> <<>>]

\* tunnel_state_t state = {0}, then the credentials and options full_tunnel()
\* fills in
state0 ==
    [registered |-> FALSE, registration_sent |-> FALSE,
     control_stream_id |-> 0, ctrl_parsed_offset |-> 0,
     auth |-> [account_tag |-> <<97, 99, 99>>, tunnel_secret |-> <<1, 2, 3>>],
     tunnel_id_bytes |-> [i \in 1..16 |-> 16 + i],
     conn_options |-> [client_id |-> [i \in 1..16 |-> 64 + i],
                       version |-> Txt.Version, arch |-> Txt.Arch,
                       replace_existing |-> FALSE, compression_quality |-> 0,
                       num_previous_attempts |-> 0]]

pq0 == [app_ctx |-> {}, active |-> {}, next_local |-> 0, close_calls |-> 0,
        ready |-> FALSE, closed |-> FALSE, cb_error |-> FALSE,
        fin_sent |-> {}, fin_in |-> {}, reset_in |-> {}, reset_out |-> {},
        stop_in |-> {}]

hist0 == [events |-> [s \in StreamIds \cup {NoStream} |-> <<>>],
          sends |-> [s \in StreamIds |-> <<>>], nsends |-> 0,
          queued |-> [s \in StreamIds |-> <<>>],
          opens |-> <<>>,
          pulled |-> [s \in StreamIds |-> <<>>],
          pull_fins |-> [s \in StreamIds |-> 0],
          chunks |-> [s \in StreamIds |-> <<>>],
          decodes |-> <<>>, forwards |-> <<>>, script |-> <<>>]

\* the configuration of a run: the event callback installed in
\* quic_tunnel_config_t, which histories are kept, and what the environment
\* may choose (origin answers, bytes outside the buffer, transport windows)
Config(cb, record_events, origins, windows) ==
    [event_cb |-> cb, record_events |-> record_events,
     record_sends |-> cb = "full",
     origins |-> origins, wilds |-> {0, 255}, windows |-> windows]

Commit(w) ==
    /\ ctx' = w.ctx
    /\ state' = w.state
    /\ pq' = w.pq
    /\ cfg' = w.cfg
    /\ hist' = w.hist

\* a callback that returns non-zero makes the transport abandon the connection
Returned(r) ==
    IF r.ret # 0 THEN [r.w EXCEPT !.pq.cb_error = TRUE] ELSE r.w

Alive == ~pq.closed /\ ~pq.cb_error

\* the transport knows the stream: opened by the peer, or opened locally
Exists(s) == s \in RemoteIds \/ s < pq.next_local

CanReceive(s) ==
    /\ Alive /\ pq.ready /\ Exists(s)
    /\ s \notin pq.fin_in /\ s \notin pq.reset_in

RECURSIVE Concat(_)
Concat(seqs) == IF seqs = <<>> THEN <<>> ELSE Head(seqs) \o Concat(Tail(seqs))

\* the chunks accepted on a stream, the empty ones left out
Arrived(chunks, bytes) == IF bytes = <<>> THEN chunks ELSE Append(chunks, bytes)

\* Each action lets any one of the fallible library calls of its handler
\* fail: a run without failure makes nfc of them.
Ready ==
    /\ Alive /\ ~pq.ready
    /\ \E f \in 0..cb_ready(World(0, NoOrigin, 0)).w.nfc :
          Commit([Returned(cb_ready(World(f, NoOrigin, 0)))
                    EXCEPT !.pq.ready = TRUE])
    /\ UNCHANGED net

Close ==
    /\ ~pq.closed
    /\ Commit([Returned(cb_close(World(0, NoOrigin, 0)))
                 EXCEPT !.pq.closed = TRUE])
    /\ UNCHANGED net

StreamData(s) ==
    /\ CanReceive(s)
    /\ \E n \in 0..Len(net[s]), o \in cfg.origins, x \in cfg.wilds :
       \E bytes \in {Concat(SubSeq(net[s], 1, n))} :
       \E f \in 0..cb_stream_data(World(0, o, x), s, bytes).w.nfc :
       \E r \in {cb_stream_data(World(f, o, x), s, bytes)} :
          /\ Commit(IF r.ret = 0
                    THEN [r.w EXCEPT !.hist.chunks[s] = Arrived(@, bytes)]
                    ELSE Returned(r))
          /\ net' = [net EXCEPT ![s] = SubSeq(@, n + 1, Len(@))]

\* the peer ends the stream after n more bytes
StreamFin(s) ==
    /\ CanReceive(s)
    /\ \E n \in 0..Len(net[s]), o \in cfg.origins, x \in cfg.wilds :
       \E bytes \in {Concat(SubSeq(net[s], 1, n))} :
       \E f \in 0..cb_stream_fin(World(0, o, x), s, bytes).w.nfc :
       \E r \in {cb_stream_fin(World(f, o, x), s, bytes)} :
          /\ Commit(IF r.ret = 0
                    THEN [r.w EXCEPT !.hist.chunks[s] = Arrived(@, bytes),
                                     !.pq.fin_in = @ \cup {s}]
                    ELSE Returned(r))
          /\ net' = [net EXCEPT ![s] = <<>>]

PrepareToSend(s) ==
    /\ Alive /\ pq.ready
    /\ s \in pq.active /\ s \notin pq.fin_sent /\ s \notin pq.reset_out
    /\ \E length \in cfg.windows :
          \E f \in 0..cb_prepare_to_send(World(0, NoOrigin, 0), s, length).w.nfc :
             Commit(Returned(cb_prepare_to_send(World(f, NoOrigin, 0), s, length)))
    /\ UNCHANGED net

StreamReset(s) ==
    /\ Alive /\ pq.ready /\ Exists(s) /\ s \notin pq.reset_in
    /\ Commit([Returned(cb_stream_reset(World(0, NoOrigin, 0), s))
                 EXCEPT !.pq.reset_in = @ \cup {s}])
    /\ net' = [net EXCEPT ![s] = <<>>]

StopSending(s) ==
    /\ Alive /\ pq.ready /\ Exists(s) /\ s \notin pq.stop_in
    /\ Commit([Returned(cb_stop_sending(World(0, NoOrigin, 0), s))
                 EXCEPT !.pq.stop_in = @ \cup {s}])
    /\ UNCHANGED net

\* the k-th send() of the free client passes bytes no other send passes
SendBytes(k, len) == [j \in 1..len |-> 16 * k + j]

\* API calls of a client that is not the tunnel state machine
ApiOpenStream ==
    /\ cfg.event_cb = "app" /\ ~pq.closed
    /\ Len(hist.opens) < MaxOpens /\ pq.next_local \in LocalIds
    /\ \E is_control \in BOOLEAN :
          \E f \in 0..quic_tunnel_open_stream(World(0, NoOrigin, 0),
                                              is_control).w.nfc :
             Commit(quic_tunnel_open_stream(World(f, NoOrigin, 0), is_control).w)
    /\ UNCHANGED net

ApiSend ==
    /\ cfg.event_cb = "app" /\ ~pq.closed
    /\ hist.nsends < MaxSends
    /\ \E s \in StreamIds, len \in 0..MaxSendLen, fin \in BOOLEAN :
       \E data \in {SendBytes(hist.nsends + 1, len)} :
       \E f \in 0..quic_tunnel_send(World(0, NoOrigin, 0), s, data, TRUE,
                                    fin).w.nfc :
          Commit(quic_tunnel_send(World(f, NoOrigin, 0), s, data, TRUE, fin).w)
    /\ UNCHANGED net

ApiClose ==
    /\ cfg.event_cb = "app" /\ ~pq.closed
    /\ pq.close_calls < MaxCloses
    /\ Commit(quic_tunnel_close(World(0, NoOrigin, 0)))
    /\ UNCHANGED net

(* ------------------------------------------------------------------------ *)
(* SpecRecv: the receive path of the multiplexer under a free peer, with a  *)
(* client that opens streams and closes.                                    *)
(* ------------------------------------------------------------------------ *)

\* the bytes the peer sends on stream s, cut anywhere: no two positions carry
\* the same byte
InBytes(s) == [j \in 1..MaxIn |-> <<32 * (s + 1) + j>>]

InitRecv ==
    /\ ctx = ctx0
    /\ state = state0
    /\ pq = pq0
    /\ net = [s \in StreamIds |-> InBytes(s)]
    /\ cfg = Config("app", TRUE, {NoOrigin}, 1..MaxWindow)
    /\ hist = hist0

NextRecv ==
    \/ Ready
    \/ Close
    \/ \E s \in StreamIds : StreamData(s)
    \/ \E s \in StreamIds : StreamFin(s)
    \/ \E s \in StreamIds : StreamReset(s)
    \/ ApiOpenStream
    \/ ApiClose

SpecRecv == InitRecv /\ [][NextRecv]_vars

(* ------------------------------------------------------------------------ *)
(* SpecReset: the peer sends on the stream it opened and resets streams,    *)
(* the application opens a stream and sends; the events and the send()     *)
(* calls are both logged.                                                   *)
(* ------------------------------------------------------------------------ *)

InitReset ==
    /\ ctx = ctx0
    /\ state = state0
    /\ pq = pq0
    /\ net = [s \in StreamIds |-> IF s \in RemoteIds THEN InBytes(s) ELSE <<>>]
    /\ cfg = [Config("app", TRUE, {NoOrigin}, 1..MaxWindow)
                 EXCEPT !.record_sends = TRUE]
    /\ hist = hist0

NextReset ==
    \/ Ready
    \/ \E s \in StreamIds : StreamData(s)
    \/ \E s \in StreamIds : StreamFin(s)
    \/ \E s \in StreamIds : StreamReset(s)
    \/ ApiOpenStream
    \/ ApiSend

SpecReset == InitReset /\ [][NextReset]_vars

(* ------------------------------------------------------------------------ *)
(* SpecSend: the send path of the multiplexer under a free client; the peer *)
(* opens its streams without payload, resets and stops streams.             *)
(* ------------------------------------------------------------------------ *)

InitSend ==
    /\ ctx = ctx0
    /\ state = state0
    /\ pq = pq0
    /\ net = [s \in StreamIds |-> <<>>]
    /\ cfg = Config("app", FALSE, {NoOrigin}, 1..MaxWindow)
    /\ hist = hist0

NextSend ==
    \/ Ready
    \/ Close
    \/ \E s \in StreamIds : StreamData(s)
    \/ \E s \in StreamIds : PrepareToSend(s)
    \/ \E s \in StreamIds : StreamReset(s)
    \/ \E s \in StreamIds : StopSending(s)
    \/ ApiOpenStream
    \/ ApiSend
    \/ ApiClose

SpecSend == InitSend /\ [][NextSend]_vars

(* ------------------------------------------------------------------------ *)
(* SpecPull: the send side alone: the application opens a stream and sends, *)
(* the transport pulls, the peer may ask to stop sending, the connection    *)
(* may close.  The transport keeps asking every active stream for its data. *)
(* ------------------------------------------------------------------------ *)

NextPull ==
    \/ Ready
    \/ Close
    \/ \E s \in StreamIds : PrepareToSend(s)
    \/ \E s \in StreamIds : StopSending(s)
    \/ ApiOpenStream
    \/ ApiSend

SpecPull ==
    /\ InitSend /\ [][NextPull]_vars
    /\ \A s \in StreamIds : WF_vars(PrepareToSend(s))

\* SpecSend with the log of send() calls kept (arguments and return value)
InitSendLog ==
    /\ ctx = ctx0
    /\ state = state0
    /\ pq = pq0
    /\ net = [s \in StreamIds |-> <<>>]
    /\ cfg = [Config("app", FALSE, {NoOrigin}, 1..MaxWindow)
                 EXCEPT !.record_sends = TRUE]
    /\ hist = hist0

SpecSendLog == InitSendLog /\ [][NextSend]_vars

\* SpecPull with the log of send() calls kept, and without the fairness
SpecSendFail == InitSendLog /\ [][NextPull]_vars

(* ------------------------------------------------------------------------ *)
(* SpecLoop: quic_tunnel_run.  The packet loop of the transport alternates  *)
(* a receive phase, in which it invokes tunnel_picoquic_callback, and a     *)
(* send phase, and calls tunnel_loop_cb at the end of each.  The transport  *)
(* library is not part of the sources: the order of its callbacks is its    *)
(* choice, and so is a failure of the loop.                                 *)
(* ------------------------------------------------------------------------ *)

PICOQUIC_NO_ERROR_TERMINATE_PACKET_LOOP == 1078

\* number of close, application_close and stateless_reset callbacks the
\* transport makes on the connection
MaxCloseReports == 2

\* tunnel_loop_cb with the defect of looking at the connection only after
\* the receive phase
tunnel_loop_cb_receive_only(w, cb_mode) ==
    IF cb_mode = "after_receive" /\ w.ctx.disconnected
    THEN PICOQUIC_NO_ERROR_TERMINATE_PACKET_LOOP
    ELSE 0

\* tunnel_loop_cb: the value returned to the packet loop
tunnel_loop_cb(w, cb_mode) ==
    IF cb_mode \in {"after_receive", "after_send"} /\ w.ctx.disconnected
    THEN PICOQUIC_NO_ERROR_TERMINATE_PACKET_LOOP
    ELSE 0

\* quic_tunnel_run: the value returned when picoquic_packet_loop returned ret
quic_tunnel_run(ret) ==
    IF ret = PICOQUIC_NO_ERROR_TERMINATE_PACKET_LOOP \/ ret = 0 THEN 0 ELSE ret

\* the packet loop is inside picoquic_packet_loop
Running == pq.loop = "running"

\* Disconnected events dispatched so far
CloseReports ==
    Len(SelectSeq(hist.events[NoStream], LAMBDA e : e.ev = "Disconnected"))

\* the handshake completes once, on a connection that was not closed
LoopReady ==
    /\ Running /\ pq.phase = "receive" /\ ~pq.ready /\ CloseReports = 0
    /\ Commit([cb_ready(World(0, NoOrigin, 0)).w EXCEPT !.pq.ready = TRUE])
    /\ UNCHANGED net

\* a close is reported in either phase: on a packet of the peer, or on a
\* timer while the transport prepares what to send
LoopClose ==
    /\ Running /\ CloseReports < MaxCloseReports
    /\ Commit([cb_close(World(0, NoOrigin, 0)).w EXCEPT !.pq.closed = TRUE])
    /\ UNCHANGED net

LoopStreamData(s) ==
    /\ Running /\ pq.phase = "receive" /\ Exists(s)
    /\ s \notin pq.fin_in /\ net[s] # <<>>
    /\ \E f \in 0..cb_stream_data(World(0, NoOrigin, 0), s, Head(net[s])).w.nfc :
          Commit(cb_stream_data(World(f, NoOrigin, 0), s, Head(net[s])).w)
    /\ net' = [net EXCEPT ![s] = Tail(@)]

LoopStreamFin(s) ==
    /\ Running /\ pq.phase = "receive" /\ Exists(s)
    /\ s \notin pq.fin_in
    /\ \E f \in 0..cb_stream_fin(World(0, NoOrigin, 0), s, <<>>).w.nfc :
          Commit([cb_stream_fin(World(f, NoOrigin, 0), s, <<>>).w
                    EXCEPT !.pq.fin_in = @ \cup {s}])
    /\ net' = [net EXCEPT ![s] = <<>>]

\* the end of a phase: tunnel_loop_cb decides whether the loop goes on
LoopStep ==
    /\ Running
    /\ \E mode \in {IF pq.phase = "receive" THEN "after_receive"
                                            ELSE "after_send"} :
       \E ret \in {tunnel_loop_cb(World(0, NoOrigin, 0), mode)} :
          /\ pq' = IF ret # 0
                   THEN [pq EXCEPT !.loop = "returned", !.loop_ret = ret,
                                   !.run_ret = quic_tunnel_run(ret)]
                   ELSE [pq EXCEPT !.phase = IF @ = "receive" THEN "send"
                                                             ELSE "receive"]
    /\ UNCHANGED <<ctx, state, net, cfg, hist>>

\* picoquic_packet_loop gives up with an error of its own
LoopError ==
    /\ Running
    /\ pq' = [pq EXCEPT !.loop = "returned", !.loop_ret = -1,
                        !.run_ret = quic_tunnel_run(-1)]
    /\ UNCHANGED <<ctx, state, net, cfg, hist>>

\* quic_tunnel_close called by the application from an event callback
LoopApiClose ==
    /\ Running /\ pq.phase = "receive" /\ pq.close_calls < MaxCloses
    /\ Commit(quic_tunnel_close(World(0, NoOrigin, 0)))
    /\ UNCHANGED net

InitLoop ==
    /\ ctx = ctx0
    /\ state = state0
    /\ pq = pq0 @@ [loop |-> "running", phase |-> "receive",
                    loop_ret |-> 0, run_ret |-> 0]
    /\ net = [s \in StreamIds |-> InBytes(s)]
    /\ cfg = Config("app", TRUE, {NoOrigin}, 1..MaxWindow)
    /\ hist = hist0

NextLoop ==
    \/ LoopReady
    \/ LoopClose
    \/ \E s \in StreamIds : LoopStreamData(s)
    \/ \E s \in StreamIds : LoopStreamFin(s)
    \/ LoopApiClose
    \/ LoopStep
    \/ LoopError

SpecLoop == InitLoop /\ [][NextLoop]_vars

\* the packet loop keeps running its phases: each ends with tunnel_loop_cb
SpecLoopFair == SpecLoop /\ WF_vars(LoopStep)

(* ------------------------------------------------------------------------ *)
(* What the edge sends                                                      *)
(* ------------------------------------------------------------------------ *)

\* a control-stream message with what the edge meant by it
Msg(kind, answer_id, bytes) ==
    [kind |-> kind, answer_id |-> answer_id, bytes |-> bytes]

EdgeUuid == [i \in 1..16 |-> 17 * (i - 1)]

\* the Return for the Bootstrap question
MsgBootstrap == Msg("bootstrap", 0, EdgeBootstrapReturn(0))

\* Returns for the RegisterConnection question
MsgsForQuestion1 ==
    { Msg("details", 1, EdgeConnDetails(1, TRUE, EdgeUuid, <<83, 74, 67>>)),
      Msg("exception", 1, EdgeException(1, <<97, 98>>)),
      Msg("exception", 1, EdgeException(1, <<>>)),
      Msg("canceled", 1, EdgeCanceled(1)),
      Msg("conn_error", 1, EdgeConnError(1, 5, TRUE, <<120>>)),
      Msg("conn_error", 1, EdgeConnError(1, 0, FALSE, <<>>)) }

\* Returns that answer another question than RegisterConnection
MsgsForOtherQuestion ==
    { Msg("details", 0, EdgeConnDetails(0, FALSE, EdgeUuid, <<83, 74, 67>>)),
      Msg("exception", 2, EdgeException(2, <<97, 98>>)) }

\* messages the decoder reports as protocol errors
MsgsProtocolError ==
    { Msg("other_message", 0, EdgeOtherMessage(4)),
      Msg("unknown_return", 1, EdgeUnknownReturn(1, 3)),
      Msg("unknown_connresp", 1, EdgeUnknownConnResp(1, 2)) }

CtlMenu == {MsgBootstrap} \cup MsgsForQuestion1 \cup MsgsForOtherQuestion
               \cup MsgsProtocolError

\* what the edge sends on the control stream: one message, or two of which
\* the first is the Bootstrap answer or a registration error
CtlScripts ==
    {<<m>> : m \in CtlMenu}
        \cup {<<MsgBootstrap, m>> : m \in CtlMenu}
        \cup {<<Msg("canceled", 1, EdgeCanceled(1)), m>> : m \in MsgsForQuestion1}

\* the points where the edge may cut a message of the control stream: inside
\* the segment table, and before the last word
Runs(bytes) ==
    <<SubSeq(bytes, 1, 4), SubSeq(bytes, 5, Len(bytes) - 8),
      SubSeq(bytes, Len(bytes) - 7, Len(bytes))>>

RECURSIVE ScriptRuns(_)
ScriptRuns(script) ==
    IF script = <<>> THEN <<>>
    ELSE Runs(Head(script).bytes) \o ScriptRuns(Tail(script))

\* a framed ConnectRequest as the edge builds it: ConnectRequest (dw=1,
\* pc=2), dest at pointer[0], the composite Metadata list at pointer[1]
EdgeConnectRequest(type, dest, metadata) ==
    Let([b3 \in {capnp_write_text(
                    Poke(WithStructPtr(
                             capnp_alloc(capnp_alloc(capnp_builder_init(1024), 1),
                                         1 + 2),
                             0, 8, 1, 2),
                         8, le16(type)),
                    16, dest)},
         n \in {Len(metadata)} |->
    Let([list_off \in {capnp_alloc_off(b3, 1 + n * 2)},
         b4 \in {capnp_alloc(b3, 1 + n * 2)} |->
        CF_DATA_STREAM_SIGNATURE \o CF_DATA_STREAM_VERSION
            \o capnp_finalize(
                   IF n > 0
                   THEN WriteElements(
                            [b4 EXCEPT !.buf =
                                capnp_write_list_ptr(
                                    SetBytes(@, list_off,
                                             le32(n * 4) \o le16(0) \o le16(2)),
                                    24, list_off, 7, n * 2)],
                            list_off, metadata, 0)
                   ELSE b3,
                   1024)
    ])])

\* POST / with the body "ping"
ReqPost == EdgeConnectRequest(0, <<47>>, <<[key |-> Txt.HttpMethod, val |-> Txt.Post]>>)

\* a request without metadata and without body
ReqGet == EdgeConnectRequest(0, <<47>>, <<>>)

\* what the edge sends on a data stream: the framed request and the body
DataScripts ==
    { [hdr |-> ReqPost, body |-> Txt.Ping],
      [hdr |-> ReqGet, body |-> <<>>],
      \* a wrong signature
      [hdr |-> <<11>> \o Tail(ReqGet), body |-> <<>>] }

\* the points where the edge may cut a data stream: inside the preamble,
\* inside the segment table, at the end of the request, inside the body
DataRuns(d) ==
    <<SubSeq(d.hdr, 1, 4), SubSeq(d.hdr, 5, 12), SubSeq(d.hdr, 13, Len(d.hdr))>>
        \o (IF d.body = <<>> THEN <<>>
            ELSE <<SubSeq(d.body, 1, 2), SubSeq(d.body, 3, Len(d.body))>>)

(* ------------------------------------------------------------------------ *)
(* SpecCtl: full-tunnel mode; the edge sends a script of control-stream     *)
(* messages, cut into StreamData events at any of the cut points.           *)
(* ------------------------------------------------------------------------ *)

InitCtl ==
    /\ ctx = ctx0
    /\ state = state0
    /\ pq = pq0
    /\ cfg = Config("full", FALSE, {NoOrigin}, {4096})
    /\ \E script \in CtlScripts :
          /\ net = [s \in StreamIds |->
                      IF s = 0 THEN ScriptRuns(script) ELSE <<>>]
          /\ hist = [hist0 EXCEPT !.script = script]

NextCtl ==
    \/ Ready
    \/ Close
    \/ \E s \in StreamIds : StreamData(s)
    \/ \E s \in StreamIds : StreamFin(s)

SpecCtl == InitCtl /\ [][NextCtl]_vars

(* ------------------------------------------------------------------------ *)
(* SpecSegments: SpecCtl with an edge that sends a message of two segments  *)
(* among the Returns.                                                       *)
(* ------------------------------------------------------------------------ *)

\* a message of two segments of one word each: the segment count minus one,
\* the two sizes, the padding of the table, the two words
MsgTwoSegments ==
    Msg("two_segments", 0,
        le32(1) \o le32(1) \o le32(1) \o le32(0) \o Zeros(16))

SegmentScripts ==
    LET details == Msg("details", 1,
                       EdgeConnDetails(1, TRUE, EdgeUuid, <<83, 74, 67>>))
    IN  { <<MsgTwoSegments, details>>,
          <<MsgBootstrap, MsgTwoSegments, details>>,
          <<details, MsgTwoSegments,
            Msg("exception", 1, EdgeException(1, <<97, 98>>))>> }

InitSegments ==
    /\ ctx = ctx0
    /\ state = state0
    /\ pq = pq0
    /\ cfg = [Config("full", FALSE, {NoOrigin}, {4096}) EXCEPT !.wilds = {0}]
    /\ \E script \in SegmentScripts :
          /\ net = [s \in StreamIds |->
                      IF s = 0 THEN ScriptRuns(script) ELSE <<>>]
          /\ hist = [hist0 EXCEPT !.script = script]

NextSegments ==
    \/ NextCtl
    \/ \E s \in StreamIds : StreamReset(s)

SpecSegments == InitSegments /\ [][NextSegments]_vars

(* ------------------------------------------------------------------------ *)
(* SpecData: full-tunnel mode; the edge opens a data stream and sends a     *)
(* framed request and a body, cut into StreamData events at any of the cut  *)
(* points; the origin answers in one of several ways.                       *)
(* ------------------------------------------------------------------------ *)

InitData ==
    /\ ctx = ctx0
    /\ state = state0
    /\ pq = pq0
    /\ cfg = Config("full", FALSE, {OriginFailed, OriginEmpty, OriginBody}, {4096})
    /\ \E d \in DataScripts :
          /\ net = [s \in StreamIds |-> IF s = 1 THEN DataRuns(d) ELSE <<>>]
          /\ hist = [hist0 EXCEPT !.script = <<d>>]

NextData ==
    \/ Ready
    \/ Close
    \/ \E s \in StreamIds : StreamData(s)
    \/ \E s \in StreamIds : StreamFin(s)
    \/ \E s \in StreamIds : PrepareToSend(s)

SpecData == InitData /\ [][NextData]_vars

(* ------------------------------------------------------------------------ *)
(* SpecOrigin: SpecData with an origin that fails: the edge sends the POST  *)
(* request, and http_proxy_forward fails in one of its steps.               *)
(* ------------------------------------------------------------------------ *)

InitOrigin ==
    /\ ctx = ctx0
    /\ state = state0
    /\ pq = pq0
    /\ cfg = Config("full", FALSE, OriginFailures, {4096})
    /\ \E d \in {[hdr |-> ReqPost, body |-> Txt.Ping]} :
          /\ net = [s \in StreamIds |-> IF s = 1 THEN DataRuns(d) ELSE <<>>]
          /\ hist = [hist0 EXCEPT !.script = <<d>>]

SpecOrigin == InitOrigin /\ [][NextData]_vars

(* ------------------------------------------------------------------------ *)
(* SpecReply: SpecData with an origin whose headers do not fit the response *)
(* encoder, and a peer that may reset the stream.                           *)
(* ------------------------------------------------------------------------ *)

\* 200 with four headers "X" of 511 characters each
OriginBig ==
    [ret |-> 0, status_code |-> 200,
     headers |-> [i \in 1..4 |-> [key |-> <<88>>, val |-> [j \in 1..511 |-> 121]]],
     body |-> <<111, 107>>]

InitReply ==
    /\ ctx = ctx0
    /\ state = state0
    /\ pq = pq0
    /\ cfg = [Config("full", FALSE, {OriginEmpty, OriginBig}, {4096})
                 EXCEPT !.wilds = {0}]
    /\ \E d \in {[hdr |-> ReqGet, body |-> <<>>],
                  [hdr |-> <<11>> \o Tail(ReqGet), body |-> <<>>]} :
          /\ net = [s \in StreamIds |-> IF s = 1 THEN DataRuns(d) ELSE <<>>]
          /\ hist = [hist0 EXCEPT !.script = <<d>>]

NextReply ==
    \/ NextData
    \/ \E s \in StreamIds : StreamReset(s)

SpecReply == InitReply /\ [][NextReply]_vars

(* ------------------------------------------------------------------------ *)
(* SpecClosing: full-tunnel mode; the edge answers the registration with an *)
(* error and a success, in either order, and sends a request on a data      *)
(* stream; a message of the control stream arrives whole, the request in    *)
(* two parts.                                                               *)
(* ------------------------------------------------------------------------ *)

MsgDetails == Msg("details", 1, EdgeConnDetails(1, TRUE, EdgeUuid, <<83, 74, 67>>))

ClosingScripts ==
    { <<Msg("exception", 1, EdgeException(1, <<97, 98>>)), MsgDetails>>,
      <<Msg("conn_error", 1, EdgeConnError(1, 5, TRUE, <<120>>)), MsgDetails>>,
      <<MsgDetails, Msg("exception", 1, EdgeException(1, <<97, 98>>))>> }

InitClosing ==
    /\ ctx = ctx0
    /\ state = state0
    /\ pq = pq0
    /\ cfg = [Config("full", FALSE, {OriginEmpty}, {4096}) EXCEPT !.wilds = {0}]
    /\ \E script \in ClosingScripts :
          /\ net = [s \in StreamIds |->
                      IF s = 0 THEN <<script[1].bytes, script[2].bytes>>
                      ELSE IF s = 1
                      THEN <<SubSeq(ReqGet, 1, 12), SubSeq(ReqGet, 13, Len(ReqGet))>>
                      ELSE <<>>]
          /\ hist = [hist0 EXCEPT !.script = script]

SpecClosing == InitClosing /\ [][NextData]_vars

(* ------------------------------------------------------------------------ *)
(* SpecFull: full-tunnel mode under every transport callback, with short    *)
(* inbound byte runs.                                                       *)
(* ------------------------------------------------------------------------ *)

InitFull ==
    /\ ctx = ctx0
    /\ state = state0
    /\ pq = pq0
    /\ cfg = Config("full", FALSE, {NoOrigin}, {4096})
    /\ net = [s \in StreamIds |-> InBytes(s)]
    /\ hist = hist0

NextFull ==
    \/ Ready
    \/ Close
    \/ \E s \in StreamIds : StreamData(s)
    \/ \E s \in StreamIds : StreamFin(s)
    \/ \E s \in StreamIds : PrepareToSend(s)
    \/ \E s \in StreamIds : StreamReset(s)
    \/ \E s \in StreamIds : StopSending(s)

SpecFull == InitFull /\ [][NextFull]_vars

(* ------------------------------------------------------------------------ *)
(* SpecCapnp: the pointer writers and the readers of capnp_minimal.c on one *)
(* segment.  hist holds the reader r, the pointer word under test (at, and  *)
(* what was written there), and the result of the reader applied last.      *)
(* ------------------------------------------------------------------------ *)

SegWords == 6

\* values of a uint16_t section size
SectionSizes == {0, 1, 255, 256, 65535}

\* 8-aligned offsets inside the segment
WordOffsets == {8 * i : i \in 0..(SegWords - 1)}

\* 8-aligned offsets before the segment, at its end, behind it and far away
OutsideOffsets == {0 - 16, 0 - 8, SegWords * 8, SegWords * 8 + 8, FarWords * 8}

\* pointer words that no writer of capnp_minimal.c produces: far pointer,
\* capability pointer, list of 8-byte elements
RawWords == { <<2, 0, 0, 0, 0, 0, 0, 0>>, <<3, 0, 0, 0, 1, 0, 0, 0>>,
              <<1, 0, 0, 0, 13, 0, 0, 0>> }

NoStructPtr == [ret |-> -1, off |-> 0, dw |-> 0, pc |-> 0]

NoListPtr == [ptr |-> FALSE, off |-> 0, len |-> 0]

CapnpCase(seg, wild) ==
    [op |-> "none",
     r |-> [mem |-> seg, base |-> 0, seg_len |-> Len(seg), wild |-> wild],
     at |-> 0, target |-> 0, dw |-> 0, pc |-> 0, count |-> 0,
     sp |-> NoStructPtr, lp |-> NoListPtr, loc |-> 0, val |-> 0]

InitCapnp ==
    /\ ctx = ctx0 /\ state = state0 /\ pq = pq0
    /\ cfg = Config("app", FALSE, {NoOrigin}, {4096})
    /\ net = [s \in StreamIds |-> <<>>]
    /\ \E seg \in {Zeros(SegWords * 8), [i \in 1..(SegWords * 8) |-> 255]} :
       \E wild \in {0, 170} :
          hist = CapnpCase(seg, wild)

WriteStructPtr(at, target, d, p) ==
    /\ hist.op = "none"
    /\ hist' = [hist EXCEPT
                   !.op = "write_struct_ptr",
                   !.r.mem = capnp_write_struct_ptr(hist.r.mem, at, target, d, p),
                   !.at = at, !.target = target, !.dw = d, !.pc = p]
    /\ UNCHANGED <<ctx, state, pq, cfg, net>>

WriteListPtr(at, target, count) ==
    /\ hist.op = "none"
    /\ hist' = [hist EXCEPT
                   !.op = "write_list_ptr",
                   !.r.mem = capnp_write_list_ptr(hist.r.mem, at, target, 2, count),
                   !.at = at, !.target = target, !.count = count]
    /\ UNCHANGED <<ctx, state, pq, cfg, net>>

PokeWord(at, word) ==
    /\ hist.op = "none"
    /\ hist' = [hist EXCEPT !.op = "poke",
                            !.r.mem = SetBytes(hist.r.mem, at, word),
                            !.at = at]
    /\ UNCHANGED <<ctx, state, pq, cfg, net>>

Written == hist.op \in {"write_struct_ptr", "write_list_ptr", "poke"}

ReadStructPtr ==
    /\ Written
    /\ hist' = [hist EXCEPT !.op = hist.op \o "/read_struct_ptr",
                            !.sp = capnp_read_struct_ptr(hist.r, hist.at)]
    /\ UNCHANGED <<ctx, state, pq, cfg, net>>

ReadText ==
    /\ Written
    /\ hist' = [hist EXCEPT !.op = hist.op \o "/read_text",
                            !.lp = capnp_read_text(hist.r, hist.at)]
    /\ UNCHANGED <<ctx, state, pq, cfg, net>>

ReadData ==
    /\ Written
    /\ hist' = [hist EXCEPT !.op = hist.op \o "/read_data",
                            !.lp = capnp_read_data(hist.r, hist.at)]
    /\ UNCHANGED <<ctx, state, pq, cfg, net>>

\* a scalar of the struct that read_struct_ptr located, as the decoders
\* read it: capnp_read_uint16(&reader, root_off, byte_offset)
StructRead ==
    /\ hist.op \in {"write_struct_ptr/read_struct_ptr", "poke/read_struct_ptr"}
    /\ hist.sp.ret = 0

ReadUint16(byte_offset) ==
    /\ StructRead
    /\ hist' = [hist EXCEPT !.op = "read_uint16",
                            !.loc = hist.sp.off + byte_offset,
                            !.val = capnp_read_uint16(hist.r, hist.sp.off, byte_offset)]
    /\ UNCHANGED <<ctx, state, pq, cfg, net>>

ReadUint8(byte_offset) ==
    /\ StructRead
    /\ hist' = [hist EXCEPT !.op = "read_uint8",
                            !.loc = hist.sp.off + byte_offset,
                            !.val = capnp_read_uint8(hist.r, hist.sp.off, byte_offset)]
    /\ UNCHANGED <<ctx, state, pq, cfg, net>>

ReadBool(byte_offset, bit) ==
    /\ StructRead
    /\ hist' = [hist EXCEPT !.op = "read_bool",
                            !.loc = hist.sp.off + byte_offset,
                            !.val = IF capnp_read_bool(hist.r, hist.sp.off, byte_offset, bit)
                                    THEN 1 ELSE 0]
    /\ UNCHANGED <<ctx, state, pq, cfg, net>>

NextCapnp ==
    \/ \E at \in WordOffsets : \E target \in WordOffsets \cup OutsideOffsets :
       \E d \in SectionSizes : \E p \in SectionSizes :
          WriteStructPtr(at, target, d, p)
    \/ \E at \in WordOffsets : \E target \in WordOffsets \cup OutsideOffsets :
       \E count \in {0, 1, 8, 16, 24} :
          WriteListPtr(at, target, count)
    \/ \E at \in WordOffsets : \E word \in RawWords \cup {Zeros(8)} : PokeWord(at, word)
    \/ ReadStructPtr
    \/ ReadText
    \/ ReadData
    \/ \E byte_offset \in {0, 6} : ReadUint16(byte_offset)
    \/ \E byte_offset \in {0, 7} : ReadUint8(byte_offset)
    \/ \E byte_offset \in {0, 7} : \E bit \in {0, 7} : ReadBool(byte_offset, bit)

SpecCapnp == InitCapnp /\ [][NextCapnp]_vars

(* ------------------------------------------------------------------------ *)
(* SpecBuild: a builder of capnp_minimal.c filled by capnp_alloc,           *)
(* capnp_write_text and capnp_write_data, read back in place and framed by  *)
(* capnp_finalize.  hist holds the builder b, the pointer slot and text     *)
(* written last, and the results of the reader and of the framing.          *)
(* ------------------------------------------------------------------------ *)

MaxBuildSteps == 3

BuilderCaps == {16, 40, 64}

\* C strings: no NUL inside; 7 and 15 characters fill their words with the
\* NUL, 8 characters need a second word for it
BuildTexts == { <<>>, <<97>>, <<97, 98, 99, 100, 101, 102, 103>>,
                <<97, 98, 99, 100, 101, 102, 103, 104>>,
                [i \in 1..15 |-> 64 + i] }

BuildCase(cap) ==
    [op |-> "init", steps |-> 0, b |-> capnp_builder_init(cap),
     at |-> 0, text |-> <<>>, pos0 |-> 0, lp |-> NoListPtr,
     out_cap |-> 0, blob |-> <<>>, n |-> 0, size |-> 0]

InitBuild ==
    /\ ctx = ctx0 /\ state = state0 /\ pq = pq0
    /\ cfg = Config("app", FALSE, {NoOrigin}, {4096})
    /\ net = [s \in StreamIds |-> <<>>]
    /\ \E cap \in BuilderCaps : hist = BuildCase(cap)

Building ==
    /\ hist.op \in {"init", "alloc", "write_text", "write_data"}
    /\ hist.b.ok /\ hist.steps < MaxBuildSteps

\* the 8-aligned pointer slots inside what the builder holds
Slots == {8 * i : i \in 0..((hist.b.pos \div 8) - 1)}

Alloc(words) ==
    /\ Building
    /\ hist' = [hist EXCEPT !.op = "alloc", !.steps = @ + 1,
                            !.b = capnp_alloc(hist.b, words)]
    /\ UNCHANGED <<ctx, state, pq, cfg, net>>

WriteText(at, text) ==
    /\ Building
    /\ hist' = [hist EXCEPT !.op = "write_text", !.steps = @ + 1,
                            !.b = capnp_write_text(hist.b, at, text),
                            !.at = at, !.text = text, !.pos0 = hist.b.pos]
    /\ UNCHANGED <<ctx, state, pq, cfg, net>>

WriteData(at, data) ==
    /\ Building
    /\ hist' = [hist EXCEPT !.op = "write_data", !.steps = @ + 1,
                            !.b = capnp_write_data(hist.b, at, data),
                            !.at = at, !.text = data, !.pos0 = hist.b.pos]
    /\ UNCHANGED <<ctx, state, pq, cfg, net>>

\* the builder's bytes as the segment of a reader
BuilderReader(b, wild) ==
    [mem |-> b.buf, base |-> 0, seg_len |-> b.pos, wild |-> wild]

BuildReadText ==
    /\ hist.op = "write_text" /\ hist.b.ok
    /\ \E wild \in {170} :
          hist' = [hist EXCEPT !.op = "write_text/read_text",
                      !.lp = capnp_read_text(BuilderReader(hist.b, wild), hist.at)]
    /\ UNCHANGED <<ctx, state, pq, cfg, net>>

BuildReadData ==
    /\ hist.op = "write_data" /\ hist.b.ok
    /\ \E wild \in {170} :
          hist' = [hist EXCEPT !.op = "write_data/read_data",
                      !.lp = capnp_read_data(BuilderReader(hist.b, wild), hist.at)]
    /\ UNCHANGED <<ctx, state, pq, cfg, net>>

Finalize(out_cap) ==
    /\ hist.op \in {"init", "alloc", "write_text", "write_data"} /\ hist.b.ok
    /\ hist' = [hist EXCEPT !.op = "finalize", !.out_cap = out_cap,
                            !.blob = capnp_finalize(hist.b, out_cap)]
    /\ UNCHANGED <<ctx, state, pq, cfg, net>>

\* capnp_wire_message_size on the first n bytes of the blob
WireSize(n) ==
    /\ hist.op = "finalize" /\ hist.blob # <<>>
    /\ hist' = [hist EXCEPT !.op = "wire_size", !.n = n,
                   !.size = capnp_wire_message_size(SubSeq(hist.blob, 1, n), 0, n)]
    /\ UNCHANGED <<ctx, state, pq, cfg, net>>

NextBuild ==
    \/ \E words \in 0..2 : Alloc(words)
    \/ \E at \in Slots : \E text \in BuildTexts : WriteText(at, text)
    \/ \E at \in Slots : \E data \in BuildTexts : WriteData(at, data)
    \/ BuildReadText
    \/ BuildReadData
    \/ \E out_cap \in {8, 24, 72} : Finalize(out_cap)
    \/ \E n \in 0..Len(hist.blob) : WireSize(n)

SpecBuild == InitBuild /\ [][NextBuild]_vars

(* ------------------------------------------------------------------------ *)
(* SpecCodec: the encoders and decoders of control_stream.c, data_stream.c  *)
(* and capnp_minimal.c applied to one input each.  hist holds the function  *)
(* applied (op), its arguments (arg) and what it returned (res).            *)
(* ------------------------------------------------------------------------ *)

CodecCase == [op |-> "none", arg |-> <<>>, res |-> <<>>]

InitCodec ==
    /\ ctx = ctx0 /\ state = state0 /\ pq = pq0
    /\ cfg = Config("app", FALSE, {NoOrigin}, {4096})
    /\ net = [s \in StreamIds |-> <<>>]
    /\ hist = CodecCase

\* cf_tunnel_auth_t values
RegisterAuths ==
    [account_tag : {<<>>, <<97, 99, 99>>, <<97, 98, 99, 100, 101, 102, 103, 104>>},
     tunnel_secret : {<<>>, <<1, 2, 3>>}]

\* cf_conn_options_t values
RegisterOptions ==
    [client_id : {<<>>, [i \in 1..16 |-> 64 + i]},
     version : {<<>>, Txt.Version}, arch : {Txt.Arch},
     replace_existing : BOOLEAN, compression_quality : {0},
     num_previous_attempts : {0, 2}]

\* bootstrap alone is 48 bytes
RegisterCaps == {47, 48, 160, 4096}

EncodeRegister(auth, tunnel_id, conn_index, options, buf_cap) ==
    /\ hist.op = "none"
    /\ hist' = [op |-> "encode_register",
                arg |-> [auth |-> auth, tunnel_id |-> tunnel_id,
                         conn_index |-> conn_index, options |-> options,
                         buf_cap |-> buf_cap],
                res |-> control_stream_encode_register(auth, tunnel_id, conn_index,
                                                       options, buf_cap)]
    /\ UNCHANGED <<ctx, state, pq, cfg, net>>

\* the 16 bytes 00 11 22 .. FF and another uuid
ReturnUuids == {[i \in 1..16 |-> 17 * (i - 1)], [i \in 1..16 |-> 250 - 13 * i]}

\* "SJC", no name, and names of 31 and of 40 characters
ReturnLocations == {<<83, 74, 67>>, <<>>, [i \in 1..31 |-> 64 + i],
                    [i \in 1..40 |-> 64 + i]}

\* reasons of an Exception: none, "boom", 255 and 300 characters
ReturnReasons == {<<>>, <<98, 111, 111, 109>>, [i \in 1..255 |-> 97 + (i % 26)],
                  [i \in 1..300 |-> 97 + (i % 26)]}

\* decode_response on a Return{results} that leads to a ConnectionResponse
\* with connectionDetails whose data byte 0 is byte0
ReturnDetails(answer_id, byte0, uuid, location, wild) ==
    /\ hist.op = "none"
    /\ \E msg \in {SetBytes(EdgeConnDetails(answer_id, FALSE, uuid, location),
                            8 + 88, <<byte0>>)} :
          hist' = [op |-> "decode_details",
                   arg |-> [answer_id |-> answer_id, byte0 |-> byte0, uuid |-> uuid,
                            location |-> location, msg |-> msg],
                   res |-> control_stream_decode_response(msg, 0, Len(msg), wild)]
    /\ UNCHANGED <<ctx, state, pq, cfg, net>>

\* decode_response on a Return{exception} with the reason text
ReturnException(answer_id, reason, wild) ==
    /\ hist.op = "none"
    /\ \E msg \in {EdgeException(answer_id, reason)} :
          hist' = [op |-> "decode_exception",
                   arg |-> [answer_id |-> answer_id, reason |-> reason, msg |-> msg],
                   res |-> control_stream_decode_response(msg, 0, Len(msg), wild)]
    /\ UNCHANGED <<ctx, state, pq, cfg, net>>

\* decode_response on a Return{canceled}
ReturnCanceled(answer_id, wild) ==
    /\ hist.op = "none"
    /\ \E msg \in {EdgeCanceled(answer_id)} :
          hist' = [op |-> "decode_canceled",
                   arg |-> [answer_id |-> answer_id, msg |-> msg],
                   res |-> control_stream_decode_response(msg, 0, Len(msg), wild)]
    /\ UNCHANGED <<ctx, state, pq, cfg, net>>

\* buffers handed to data_stream_parse_request: a framed request, its
\* prefixes around the preamble, and the request with one byte of the
\* preamble changed
ParseInputs(req) ==
    {req} \cup {SubSeq(req, 1, n) : n \in 0..12}
          \cup {[req EXCEPT ![i] = 0] : i \in 1..8}
          \cup {[req EXCEPT ![i] = (req[i] + 1) % 256] : i \in 1..8}

ParseRequest(data, wild) ==
    /\ hist.op = "none"
    /\ hist' = [op |-> "parse_request", arg |-> [data |-> data, wild |-> wild],
                res |-> data_stream_parse_request(data, wild)]
    /\ UNCHANGED <<ctx, state, pq, cfg, net>>

\* header lists: none, one, three with a repeated name, one with no value
ResponseHeaders ==
    { <<>>,
      <<[key |-> <<67, 84>>, val |-> <<116, 101, 120, 116>>]>>,
      <<[key |-> <<65>>, val |-> <<49>>], [key |-> <<66>>, val |-> <<50>>],
        [key |-> <<65>>, val |-> <<51>>]>>,
      <<[key |-> <<66>>, val |-> <<50>>], [key |-> <<65>>, val |-> <<49>>]>>,
      <<[key |-> <<88, 45, 69, 109, 112, 116, 121>>, val |-> <<>>],
        [key |-> <<65>>, val |-> [i \in 1..40 |-> 97 + (i % 26)]]>> }

\* data_stream_build_response on what data_stream_build_http_metadata built
BuildResponse(status_code, headers, buf_cap) ==
    /\ hist.op = "none"
    /\ \E resp \in {data_stream_build_http_metadata(status_code, headers)} :
          hist' = [op |-> "build_response",
                   arg |-> [status_code |-> status_code, headers |-> headers,
                            buf_cap |-> buf_cap],
                   res |-> data_stream_build_response(resp, buf_cap)]
    /\ UNCHANGED <<ctx, state, pq, cfg, net>>

NextCodec ==
    \/ \E auth \in RegisterAuths : \E tunnel_id \in {<<>>, state0.tunnel_id_bytes} :
       \E conn_index \in {0, 3, 255} : \E options \in RegisterOptions :
       \E buf_cap \in RegisterCaps :
          EncodeRegister(auth, tunnel_id, conn_index, options, buf_cap)
    \/ \E byte0 \in {0, 1, 2, 3, 255} : \E uuid \in ReturnUuids :
       \E location \in ReturnLocations : \E wild \in {0, 170} :
          ReturnDetails(1, byte0, uuid, location, wild)
    \/ \E answer_id \in {0, 1} : \E reason \in ReturnReasons : \E wild \in {0, 170} :
          ReturnException(answer_id, reason, wild)
    \/ \E answer_id \in {0, 1} : \E wild \in {0, 170} : ReturnCanceled(answer_id, wild)
    \/ \E req \in {ReqPost, ReqGet} : \E data \in ParseInputs(req) :
       \E wild \in {0, 170} :
          ParseRequest(data, wild)
    \/ \E status_code \in {7, 200, 404} : \E headers \in ResponseHeaders :
       \E buf_cap \in {71, 120, 4096} :
          BuildResponse(status_code, headers, buf_cap)

SpecCodec == InitCodec /\ [][NextCodec]_vars

(* ------------------------------------------------------------------------ *)
(* SpecEncode: data_stream_build_response on responses around the size of   *)
(* the encoder's working segment.                                           *)
(* ------------------------------------------------------------------------ *)

\* the lengths of the header values of a response, one header per entry
ValueLengths ==
    { <<>>, <<0>>, <<7>>, <<8>>, <<40>>,
      <<511, 511, 511, 311>>, <<511, 511, 511, 312>>, <<511, 511, 511, 600>>,
      <<511, 511, 511, 279, 0>>, <<511, 511, 511, 280, 0>>,
      [i \in 1..31 |-> 7], [i \in 1..33 |-> 0] }

\* headers "X" with values of these lengths
HeadersOf(lens) ==
    [i \in 1..Len(lens) |-> [key |-> <<88>>, val |-> [j \in 1..lens[i] |-> 121]]]

\* the output capacities: one byte short of the least accepted, the least
\* accepted, a small one, around the largest message, the state machine's
OutputCaps == {71, 72, 120, 2063, 2064, 4096}

InitEncode ==
    /\ ctx = ctx0 /\ state = state0 /\ pq = pq0
    /\ cfg = Config("full", FALSE, {NoOrigin}, {4096})
    /\ net = [s \in StreamIds |-> <<>>]
    /\ hist = CodecCase

\* tunnel_main.c: build_http_metadata, then build_response
EncodeResponse(status_code, lens, buf_cap) ==
    /\ hist.op = "none"
    /\ \E resp \in {data_stream_build_http_metadata(status_code, HeadersOf(lens))} :
          hist' = [op |-> "build_response",
                   arg |-> [resp |-> resp, buf_cap |-> buf_cap],
                   res |-> data_stream_build_response(resp, buf_cap)]
    /\ UNCHANGED <<ctx, state, pq, cfg, net>>

NextEncode ==
    \E status_code \in {7, 200, 404} : \E lens \in ValueLengths :
    \E buf_cap \in OutputCaps :
        EncodeResponse(status_code, lens, buf_cap)

SpecEncode == InitEncode /\ [][NextEncode]_vars

(* ------------------------------------------------------------------------ *)
(* SpecMain: main, app_main, full_tunnel and phase3_test (tunnel_main.c).   *)
(* hist holds the environment variables the process was started with, what  *)
(* the mode function returned and the exit code of the process.             *)
(* ------------------------------------------------------------------------ *)

\* getenv() returning NULL (no C string holds a NUL)
Unset == <<0>>

IsXDigit(c) == c \in 48..57 \/ c \in 65..70 \/ c \in 97..102

XDigitVal(c) == IF c \in 48..57 THEN c - 48 ELSE IF c \in 65..70 THEN c - 55 ELSE c - 87

\* str[i] of a C string: the NUL behind its last character
CharAt(str, i) == IF i < Len(str) THEN str[i + 1] ELSE 0

RECURSIVE ParseUuidLoop(_, _, _)
\* the for loop of parse_uuid from index i with buf filled so far
ParseUuidLoop(str, i, buf) ==
    IF CharAt(str, i) = 0 \/ Len(buf) >= 16
    THEN IF Len(buf) # 16 THEN [ret |-> -1, out |-> <<>>] ELSE [ret |-> 0, out |-> buf]
    ELSE IF CharAt(str, i) = 45 THEN ParseUuidLoop(str, i + 1, buf)
    ELSE IF ~IsXDigit(CharAt(str, i)) \/ ~IsXDigit(CharAt(str, i + 1))
    THEN [ret |-> -1, out |-> <<>>]
    ELSE ParseUuidLoop(str, i + 2,
             Append(buf, 16 * XDigitVal(CharAt(str, i)) + XDigitVal(CharAt(str, i + 1))))

parse_uuid(str) == ParseUuidLoop(str, 0, <<>>)

\* b64_table[c]: 0 for every character outside the alphabet
B64Table(c) ==
    IF c \in 65..90 THEN c - 65 ELSE IF c \in 97..122 THEN c - 71
    ELSE IF c \in 48..57 THEN c + 4 ELSE IF c = 43 THEN 62
    ELSE IF c = 47 THEN 63 ELSE 0

IsB64Space(c) == c = 10 \/ c = 13 \/ c = 32

RECURSIVE SkipB64Space(_, _)
SkipB64Space(in, i) ==
    IF i < Len(in) /\ IsB64Space(in[i + 1]) THEN SkipB64Space(in, i + 1) ELSE i

\* the sextet of in[i] in a group, 0 behind the end of the input
Sextet(in, i) == IF i >= Len(in) \/ in[i + 1] = 61 THEN 0 ELSE B64Table(in[i + 1])

RECURSIVE Base64Loop(_, _, _, _)
\* the while loop of base64_decode from index i with out written so far
Base64Loop(in, i, out, out_cap) ==
    Let([k \in {SkipB64Space(in, i)} |->
        IF i >= Len(in) \/ k >= Len(in) THEN out
        ELSE
        Let([pad \in {Cardinality({j \in k..(k + 3) : j < Len(in) /\ in[j + 1] = 61})},
             triple \in {262144 * Sextet(in, k) + 4096 * Sextet(in, k + 1)
                            + 64 * Sextet(in, k + 2) + Sextet(in, k + 3)} |->
        Let([o1 \in {IF Len(out) < out_cap
                     THEN Append(out, (triple \div 65536) % 256) ELSE out} |->
        Let([o2 \in {IF pad < 2 /\ Len(o1) < out_cap
                     THEN Append(o1, (triple \div 256) % 256) ELSE o1} |->
            Base64Loop(in, Min(k + 4, Len(in)),
                       IF pad < 1 /\ Len(o2) < out_cap
                       THEN Append(o2, triple % 256) ELSE o2,
                       out_cap)
        ])])])
    ])

\* [ret, out]: base64_decode has no failing path
base64_decode(in, out_cap) == [ret |-> 0, out |-> Base64Loop(in, 0, <<>>, out_cap)]

\* full_tunnel's return value; proxy_ret, connect_ret and run_ret are what
\* http_proxy_init, quic_tunnel_connect and quic_tunnel_run return
full_tunnel(env, proxy_ret, connect_ret, run_ret) ==
    IF env.tunnel_id = Unset \/ env.account_tag = Unset \/ env.secret = Unset THEN -1
    ELSE IF parse_uuid(env.tunnel_id).ret # 0 THEN -1
    ELSE IF base64_decode(env.secret, 64).ret # 0 THEN -1
    ELSE IF proxy_ret # 0 THEN -1
    ELSE IF connect_ret # 0 THEN connect_ret
    ELSE 0

phase3_test(connect_ret, run_ret) == IF connect_ret # 0 THEN connect_ret ELSE 0

\* "full"
ModeFull == <<102, 117, 108, 108>>

\* the values of CF_TUNNEL_ID: unset, a uuid, a uuid without hyphens and
\* with trailing characters, too few digits, not hexadecimal
TunnelIdTexts ==
    { Unset, UuidText([i \in 1..16 |-> 17 * (i - 1)]),
      HexDump([i \in 1..16 |-> 17 * (i - 1)]) \o <<122, 122>>,
      <<48, 48, 49, 49>>, <<122, 122>> }

\* the values of CF_TUNNEL_SECRET: unset, "AQID", "AQ==", "!!!!"
SecretTexts == { Unset, <<65, 81, 73, 68>>, <<65, 81, 61, 61>>, <<33, 33, 33, 33>> }

MainEnvs ==
    [mode : {Unset, ModeFull, <<120>>}, tunnel_id : TunnelIdTexts,
     account_tag : {Unset, <<97, 99, 99>>}, secret : SecretTexts]

MainCase(env) ==
    [op |-> "start", env |-> env, proxy_ret |-> 0, connect_ret |-> 0, run_ret |-> 0,
     mode_ret |-> 0, exit_code |-> 0]

InitMain ==
    /\ ctx = ctx0 /\ state = state0 /\ pq = pq0
    /\ cfg = Config("full", FALSE, {NoOrigin}, {4096})
    /\ net = [s \in StreamIds |-> <<>>]
    /\ \E env \in MainEnvs : hist = MainCase(env)

\* main with CF_MODE=full: app_main calls full_tunnel and drops what it
\* returns; main returns 0
MainFull(proxy_ret, connect_ret, run_ret) ==
    /\ hist.op = "start" /\ hist.env.mode = ModeFull
    /\ hist' = [hist EXCEPT !.op = "full_tunnel", !.proxy_ret = proxy_ret,
                   !.connect_ret = connect_ret, !.run_ret = run_ret,
                   !.mode_ret = full_tunnel(hist.env, proxy_ret, connect_ret, run_ret),
                   !.exit_code = 0]
    /\ UNCHANGED <<ctx, state, pq, cfg, net>>

\* main in handshake-only mode: app_main calls phase3_test
MainHandshake(connect_ret, run_ret) ==
    /\ hist.op = "start" /\ hist.env.mode # ModeFull
    /\ hist' = [hist EXCEPT !.op = "phase3_test",
                   !.connect_ret = connect_ret, !.run_ret = run_ret,
                   !.mode_ret = phase3_test(connect_ret, run_ret),
                   !.exit_code = 0]
    /\ UNCHANGED <<ctx, state, pq, cfg, net>>

\* ESP_ERROR_CHECK of nvs_flash_init or esp_event_loop_create_default
\* fails: abort()
MainAbort ==
    /\ hist.op = "start"
    /\ hist' = [hist EXCEPT !.op = "abort", !.exit_code = 134]
    /\ UNCHANGED <<ctx, state, pq, cfg, net>>

NextMain ==
    \/ \E proxy_ret \in {0, -1} : \E connect_ret \in {0, -1} : \E run_ret \in {0, -1} :
          MainFull(proxy_ret, connect_ret, run_ret)
    \/ \E connect_ret \in {0, -1} : \E run_ret \in {0, -1} :
          MainHandshake(connect_ret, run_ret)
    \/ MainAbort

SpecMain == InitMain /\ [][NextMain]_vars

(* ------------------------------------------------------------------------ *)
(* SpecHttp: read_http_response (http_proxy.c).  The origin is a script of  *)
(* recv() results: byte runs, then a close or a time-out.  hist holds the   *)
(* script and what read_http_response stored in the response.               *)
(* ------------------------------------------------------------------------ *)

RECV_BUF_INIT == 4096

MAX_RESPONSE_BODY == 1048576

\* the responses of the origin and the string literals of read_http_response
HttpTxt ==
    [
      \* Content-Length 3 and the 3 body bytes: 'HTTP/1.1 200 OK\r\nContent-Length: 3\r\n\r\nabc'
      Full |->
          <<72, 84, 84, 80, 47, 49, 46, 49, 32, 50, 48, 48, 32, 79, 75, 13,
          10, 67, 111, 110, 116, 101, 110, 116, 45, 76, 101, 110, 103, 116,
          104, 58, 32, 51, 13, 10, 13, 10, 97, 98, 99>>,
      \* Content-Length 3 and 1 body byte: 'HTTP/1.1 200 OK\r\nContent-Length: 3\r\n\r\na'
      Short |->
          <<72, 84, 84, 80, 47, 49, 46, 49, 32, 50, 48, 48, 32, 79, 75, 13,
          10, 67, 111, 110, 116, 101, 110, 116, 45, 76, 101, 110, 103, 116,
          104, 58, 32, 51, 13, 10, 13, 10, 97>>,
      \* content-length 2 and 3 body bytes: 'HTTP/1.1 200 OK\r\ncontent-length: 2\r\n\r\nabc'
      Extra |->
          <<72, 84, 84, 80, 47, 49, 46, 49, 32, 50, 48, 48, 32, 79, 75, 13,
          10, 99, 111, 110, 116, 101, 110, 116, 45, 108, 101, 110, 103,
          116, 104, 58, 32, 50, 13, 10, 13, 10, 97, 98, 99>>,
      \* Content-Length 0: 'HTTP/1.1 204 No Content\r\nContent-Length: 0\r\n\r\n'
      NoBody |->
          <<72, 84, 84, 80, 47, 49, 46, 49, 32, 50, 48, 52, 32, 78, 111,
          32, 67, 111, 110, 116, 101, 110, 116, 13, 10, 67, 111, 110, 116,
          101, 110, 116, 45, 76, 101, 110, 103, 116, 104, 58, 32, 48, 13,
          10, 13, 10>>,
      \* no Content-Length: 'HTTP/1.0 200 OK\r\nX: y\r\n\r\nabc'
      NoLength |->
          <<72, 84, 84, 80, 47, 49, 46, 48, 32, 50, 48, 48, 32, 79, 75, 13,
          10, 88, 58, 32, 121, 13, 10, 13, 10, 97, 98, 99>>,
      \* a Content-Length over the limit: 'HTTP/1.1 200 OK\r\nContent-Length: 2000000\r\n\r\n'
      TooLong |->
          <<72, 84, 84, 80, 47, 49, 46, 49, 32, 50, 48, 48, 32, 79, 75, 13,
          10, 67, 111, 110, 116, 101, 110, 116, 45, 76, 101, 110, 103, 116,
          104, 58, 32, 50, 48, 48, 48, 48, 48, 48, 13, 10, 13, 10>>,
      \* no HTTP status line: 'ICY 200 OK\r\n\r\n'
      BadStatus |->
          <<73, 67, 89, 32, 50, 48, 48, 32, 79, 75, 13, 10, 13, 10>>,
      \* "\r\n"
      CRLF |-> <<13, 10>>,
      \* "\r\n\r\n"
      CRLFCRLF |-> <<13, 10, 13, 10>>,
      \* "HTTP/"
      Http |-> <<72, 84, 84, 80, 47>>,
      \* "content-length"
      ContentLength |->
          <<99, 111, 110, 116, 101, 110, 116, 45, 108, 101, 110, 103, 116,
          104>>
    ]

\* strstr(t + from, pat) as an offset into t, -1 for NULL
StrStr(t, pat, from) ==
    LET hits == {i \in from..(Len(t) - Len(pat)) :
                    SubSeq(t, i + 1, i + Len(pat)) = pat}
    IN  IF hits = {} THEN -1 ELSE CHOOSE i \in hits : \A j \in hits : i <= j

IsSpace(c) == c \in 9..13 \/ c = 32

IsDigit(c) == c \in 48..57

RECURSIVE SkipSpace(_, _)
SkipSpace(t, i) == IF i < Len(t) /\ IsSpace(t[i + 1]) THEN SkipSpace(t, i + 1) ELSE i

RECURSIVE DigitsEnd(_, _)
DigitsEnd(t, i) == IF i < Len(t) /\ IsDigit(t[i + 1]) THEN DigitsEnd(t, i + 1) ELSE i

RECURSIVE DecValue(_)
DecValue(ds) ==
    IF ds = <<>> THEN 0
    ELSE 10 * DecValue(SubSeq(ds, 1, Len(ds) - 1)) + (ds[Len(ds)] - 48)

\* a %d conversion at offset i: white space, an optional sign, digits
ScanInt(t, i) ==
    Let([k \in {SkipSpace(t, i)} |->
    Let([d \in {IF k < Len(t) /\ t[k + 1] \in {43, 45} THEN k + 1 ELSE k} |->
    Let([e \in {DigitsEnd(t, d)} |->
        IF e = d THEN [ok |-> FALSE, end |-> i, val |-> 0]
        ELSE [ok |-> TRUE, end |-> e,
              val |-> IF d > k /\ t[k + 1] = 45
                      THEN 0 - DecValue(SubSeq(t, d + 1, e))
                      ELSE DecValue(SubSeq(t, d + 1, e))]
    ])])])

\* sscanf(buf, "HTTP/%*d.%*d %d", &status_code): [n, status_code]
ScanStatus(t) ==
    IF SubSeq(t, 1, Min(5, Len(t))) # HttpTxt.Http THEN [n |-> 0, status_code |-> 0]
    ELSE
    Let([a \in {ScanInt(t, 5)} |->
        IF ~a.ok \/ a.end >= Len(t) \/ t[a.end + 1] # 46
        THEN [n |-> 0, status_code |-> 0]
        ELSE
        Let([b \in {ScanInt(t, a.end + 1)} |->
            IF ~b.ok THEN [n |-> 0, status_code |-> 0]
            ELSE
            Let([c \in {ScanInt(t, b.end)} |->
                IF ~c.ok THEN [n |-> 0, status_code |-> 0]
                ELSE [n |-> 1, status_code |-> c.val]
            ])
        ])
    ])

RECURSIVE SkipBlanks(_)
SkipBlanks(t) == IF t # <<>> /\ Head(t) = 32 THEN SkipBlanks(Tail(t)) ELSE t

\* parse_header_line into an entry of the zeroed response
parse_header_line(line) ==
    Let([colon \in {StrStr(line, <<58>>, 0)} |->
        IF colon = -1 \/ colon = 0 \/ colon >= 128
        THEN [key |-> <<>>, val |-> <<>>]
        ELSE [key |-> SubSeq(line, 1, colon),
              val |-> Trunc(SkipBlanks(SubSeq(line, colon + 2, Len(line))), 512)]
    ])

RECURSIVE HeaderLines(_, _, _, _)
\* the loop over the header lines from offset line
HeaderLines(t, line, header_end, headers) ==
    IF line >= header_end THEN headers
    ELSE
    Let([next \in {StrStr(t, HttpTxt.CRLF, line)} |->
        IF next = -1 \/ next = line THEN headers
        ELSE HeaderLines(t, next + 2, header_end,
                 IF Len(headers) < CF_MAX_METADATA
                 THEN Append(headers, parse_header_line(SubSeq(t, line + 1, next)))
                 ELSE headers)
    ])

\* tolower() of every character
LowerCase(t) == [i \in 1..Len(t) |-> IF t[i] \in 65..90 THEN t[i] + 32 ELSE t[i]]

\* strtoul(val, NULL, 10) as a size_t; a negative number is a wrapped one
StrToUl(t) == ScanInt(t, 0).val

\* the first Content-Length header: [have_content_length, content_length]
FindContentLength(headers) ==
    LET is == {i \in 1..Len(headers) :
                  LowerCase(headers[i].key) = HttpTxt.ContentLength}
    IN  IF is = {} THEN [have |-> FALSE, len |-> 0]
        ELSE [have |-> TRUE,
              len |-> StrToUl(headers[CHOOSE i \in is : \A j \in is : i <= j].val)]

\* recv_with_timeout on the script: [ret, bytes, rest]; an exhausted script
\* is a closed connection
Recv(script, buf_sz) ==
    IF script = <<>> THEN [ret |-> 0, bytes |-> <<>>, rest |-> <<>>]
    ELSE IF Head(script).ret # 0
    THEN [ret |-> -1, bytes |-> <<>>, rest |-> Tail(script)]
    ELSE IF Len(Head(script).bytes) > buf_sz
    THEN [ret |-> 0, bytes |-> SubSeq(Head(script).bytes, 1, buf_sz),
          rest |-> <<[ret |-> 0, bytes |-> SubSeq(Head(script).bytes, buf_sz + 1,
                                                   Len(Head(script).bytes))]>>
                      \o Tail(script)]
    ELSE [ret |-> 0, bytes |-> Head(script).bytes, rest |-> Tail(script)]

RECURSIVE ReadHeaders(_, _, _)
\* the loop reading up to the end of the header section:
\* [ret, script, buf, buf_cap, header_end]
ReadHeaders(script, buf, buf_cap) ==
    IF Len(buf) + 1 >= buf_cap /\ buf_cap * 2 > MAX_RESPONSE_BODY + 8192
    THEN [ret |-> -1, script |-> script, buf |-> buf, buf_cap |-> buf_cap,
          header_end |-> -1]
    ELSE
    Let([cap \in {IF Len(buf) + 1 >= buf_cap THEN buf_cap * 2 ELSE buf_cap} |->
    Let([r \in {Recv(script, cap - Len(buf) - 1)} |->
        IF r.ret # 0 \/ r.bytes = <<>>
        THEN [ret |-> -1, script |-> r.rest, buf |-> buf, buf_cap |-> cap,
              header_end |-> -1]
        ELSE
        Let([header_end \in {StrStr(CStr(buf \o r.bytes), HttpTxt.CRLFCRLF, 0)} |->
            IF header_end = -1 THEN ReadHeaders(r.rest, buf \o r.bytes, cap)
            ELSE [ret |-> 0, script |-> r.rest, buf |-> buf \o r.bytes,
                  buf_cap |-> cap, header_end |-> header_end]
        ])
    ])])

RECURSIVE ReadBody(_, _, _, _, _)
\* the loop reading the rest of a body of content_length bytes: [ret, buf]
ReadBody(script, buf, buf_cap, header_section_len, content_length) ==
    IF Len(buf) - header_section_len >= content_length THEN [ret |-> 0, buf |-> buf]
    ELSE
    Let([cap \in {IF Len(buf) + 1 < buf_cap THEN buf_cap
                  ELSE IF buf_cap * 2 > MAX_RESPONSE_BODY + header_section_len + 64
                  THEN content_length + header_section_len + 64
                  ELSE buf_cap * 2} |->
    Let([r \in {Recv(script, cap - Len(buf))} |->
        IF r.ret # 0 THEN [ret |-> -1, buf |-> buf]
        ELSE IF r.bytes = <<>> THEN [ret |-> 0, buf |-> buf]
        ELSE ReadBody(r.rest, buf \o r.bytes, cap, header_section_len,
                      content_length)
    ])])

RECURSIVE ReadToClose(_, _, _, _, _)
\* the loop reading a body without Content-Length, body_already being the
\* count the loop last stored: [ret, buf]
ReadToClose(script, buf, buf_cap, header_section_len, body_already) ==
    IF Len(buf) + 1 >= buf_cap
          /\ buf_cap * 2 > MAX_RESPONSE_BODY + header_section_len + 64
    THEN [ret |-> -1, buf |-> buf]
    ELSE
    Let([cap \in {IF Len(buf) + 1 >= buf_cap THEN buf_cap * 2 ELSE buf_cap} |->
    Let([r \in {Recv(script, cap - Len(buf))} |->
        IF r.ret # 0
        THEN IF body_already > 0 THEN [ret |-> 0, buf |-> buf]
             ELSE [ret |-> -1, buf |-> buf]
        ELSE IF r.bytes = <<>> THEN [ret |-> 0, buf |-> buf]
        ELSE ReadToClose(r.rest, buf \o r.bytes, cap, header_section_len,
                         Len(buf \o r.bytes) - header_section_len)
    ])])

\* what read_http_response leaves in the zeroed response
HttpResp(ret, status_code, headers, body_len, body) ==
    [ret |-> ret, status_code |-> status_code, headers |-> headers,
     body_len |-> body_len, body |-> body]

\* read_http_response: the response as stored, plus received = the body
\* bytes recv() delivered.  fault 1 fails the malloc of the receive buffer,
\* fault 2 the malloc of the body; wild is the value of a byte of the
\* receive buffer that recv() never wrote.
read_http_response(script, fault, wild) ==
    IF fault = 1 THEN [resp |-> HttpResp(-1, 0, <<>>, 0, <<>>), received |-> 0]
    ELSE
    Let([h \in {ReadHeaders(script, <<>>, RECV_BUF_INIT)} |->
        IF h.ret # 0 THEN [resp |-> HttpResp(-1, 0, <<>>, 0, <<>>), received |-> 0]
        ELSE
        Let([t \in {CStr(h.buf)},
             header_section_len \in {h.header_end + 4} |->
        Let([st \in {ScanStatus(t)} |->
            IF StrStr(t, HttpTxt.CRLF, 0) = -1 \/ st.n # 1
            THEN [resp |-> HttpResp(-1, 0, <<>>, 0, <<>>),
                  received |-> Len(h.buf) - header_section_len]
            ELSE
            Let([headers \in {HeaderLines(t, StrStr(t, HttpTxt.CRLF, 0) + 2,
                                          h.header_end, <<>>)} |->
            Let([cl \in {FindContentLength(headers)} |->
                IF cl.have /\ SzGt(cl.len, MAX_RESPONSE_BODY)
                THEN [resp |-> HttpResp(-1, st.status_code, headers, 0, <<>>),
                      received |-> Len(h.buf) - header_section_len]
                ELSE
                Let([b \in {IF cl.have
                            THEN ReadBody(h.script, h.buf, h.buf_cap,
                                          header_section_len, cl.len)
                            ELSE ReadToClose(h.script, h.buf, h.buf_cap,
                                             header_section_len,
                                             Len(h.buf) - header_section_len)} |->
                Let([body_len \in {IF cl.have THEN cl.len
                                   ELSE Len(b.buf) - header_section_len} |->
                    IF b.ret # 0
                    THEN [resp |-> HttpResp(-1, st.status_code, headers, 0, <<>>),
                          received |-> Len(b.buf) - header_section_len]
                    ELSE IF body_len > 0 /\ fault = 2
                    THEN [resp |-> HttpResp(-1, st.status_code, headers, body_len,
                                            <<>>),
                          received |-> Len(b.buf) - header_section_len]
                    ELSE [resp |-> HttpResp(0, st.status_code, headers, body_len,
                                [i \in 1..body_len |->
                                    IF header_section_len + i <= Len(b.buf)
                                    THEN b.buf[header_section_len + i]
                                    \* the NUL the header loop stored
                                    ELSE IF header_section_len + i = Len(h.buf) + 1
                                    THEN 0
                                    ELSE wild]),
                          received |-> Len(b.buf) - header_section_len]
                ])])
            ])])
        ])])
    ])

\* the ways the bytes of a response arrive: in one run, or cut in two, and
\* then the origin closes or stays silent until the time-out
HttpScripts ==
    LET texts == {HttpTxt.Full, HttpTxt.Short, HttpTxt.Extra, HttpTxt.NoBody,
                  HttpTxt.NoLength, HttpTxt.TooLong, HttpTxt.BadStatus}
        Arrivals(t) == {<<[ret |-> 0, bytes |-> t]>>}
                     \cup {<<[ret |-> 0, bytes |-> SubSeq(t, 1, k)],
                             [ret |-> 0, bytes |-> SubSeq(t, k + 1, Len(t))]>> :
                              k \in {j \in {9, Len(t) - 2, Len(t) - 1} : j < Len(t)}}
    IN  UNION {UNION {{runs, runs \o <<[ret |-> -1, bytes |-> <<>>]>>} :
                         runs \in Arrivals(t)} : t \in texts}

InitHttp ==
    /\ ctx = ctx0 /\ state = state0 /\ pq = pq0
    /\ cfg = Config("full", FALSE, {NoOrigin}, {4096})
    /\ net = [s \in StreamIds |-> <<>>]
    /\ \E script \in HttpScripts :
          hist = [op |-> "origin", script |-> script, fault |-> 0, wild |-> 0,
                  resp |-> HttpResp(0, 0, <<>>, 0, <<>>), received |-> 0]

\* step 4 of http_proxy_forward
ReadHttpResponse(fault, wild) ==
    /\ hist.op = "origin"
    /\ \E r \in {read_http_response(hist.script, fault, wild)} :
          hist' = [hist EXCEPT !.op = "read_http_response", !.fault = fault,
                      !.wild = wild, !.resp = r.resp, !.received = r.received]
    /\ UNCHANGED <<ctx, state, pq, cfg, net>>

NextHttp == \E fault \in 0..2, wild \in cfg.wilds : ReadHttpResponse(fault, wild)

SpecHttp == InitHttp /\ [][NextHttp]_vars


(* ------------------------------------------------------------------------ *)
(* Properties of the multiplexer                                            *)
(* ------------------------------------------------------------------------ *)

IsPrefix(p, q) == Len(p) <= Len(q) /\ SubSeq(q, 1, Len(p)) = p

RECURSIVE SelectEv(_, _)
SelectEv(evs, name) ==
    IF evs = <<>> THEN <<>>
    ELSE IF Head(evs).ev = name
    THEN <<Head(evs).data>> \o SelectEv(Tail(evs), name)
    ELSE SelectEv(Tail(evs), name)

\* C1: on every remote-initiated stream the events dispatched are
\* StreamOpenedRemote exactly once and first, then StreamData events, then at
\* most one StreamFin as the last event; the stream's record is in the list
\* when each of them is dispatched.
C1_RemoteStreamEventOrder ==
    \A s \in RemoteIds :
        LET e == hist.events[s]
        IN  /\ \A i \in 1..Len(e) :
                 /\ e[i].rec
                 /\ (e[i].ev = "StreamOpenedRemote") = (i = 1)
                 /\ e[i].ev \in {"StreamOpenedRemote", "StreamData", "StreamFin"}
                 /\ e[i].ev = "StreamFin" => i = Len(e)

\* a remote stream announced, two data events, then its end-of-stream
C1_Witness ==
    \E s \in RemoteIds :
        LET e == hist.events[s]
        IN  /\ Len(e) = 4
            /\ e[2].ev = "StreamData" /\ e[3].ev = "StreamData"
            /\ e[4].ev = "StreamFin"

\* C2: on every stream the bytes pulled by prepare-to-send so far, followed
\* by the unconsumed part of the send buffer, are the bytes queued by the
\* send() calls on that stream in call order; so the pulled bytes are always
\* a prefix of the queued bytes.
C2_PulledIsPrefixOfQueued ==
    \A s \in StreamIds :
        LET i == FindFrom(ctx.streams, s, 1)
        IN  /\ IsPrefix(hist.pulled[s], hist.queued[s])
            /\ i # 0 =>
                 hist.pulled[s]
                    \o SubSeq(ctx.streams[i].send_buf,
                              ctx.streams[i].send_offset + 1,
                              Len(ctx.streams[i].send_buf))
                    = hist.queued[s]

\* a send() appended to a send buffer that the transport had partly consumed
C2_Witness ==
    \E s \in StreamIds :
        LET i == FindFrom(ctx.streams, s, 1)
        IN  /\ i # 0
            /\ ctx.streams[i].send_offset = 1
            /\ Len(ctx.streams[i].send_buf) = 2 * MaxSendLen
            /\ Len(hist.pulled[s]) = 1

\* C3: on every stream the receive buffer is the concatenation, in arrival
\* order, of the chunks the inbound callbacks accepted (returned 0 for); the
\* StreamData events carry exactly those chunks, one event per chunk, and a
\* StreamFin event carries the whole receive buffer.
C3_ReceiveBufferIsConcatenation ==
    \A s \in StreamIds :
        LET i == FindFrom(ctx.streams, s, 1)
            e == hist.events[s]
        IN  /\ i # 0 => ctx.streams[i].recv_buf = Concat(hist.chunks[s])
            /\ SelectEv(e, "StreamData") = hist.chunks[s]
            /\ \A k \in 1..Len(e) :
                 e[k].ev = "StreamFin" => e[k].data = Concat(hist.chunks[s])

\* two chunks on one stream, the second delivered with the end-of-stream
C3_Witness ==
    \E s \in StreamIds :
        LET e == hist.events[s]
        IN  /\ s \in pq.fin_in
            /\ Len(hist.chunks[s]) = 2
            /\ e # <<>> /\ e[Len(e)].ev = "StreamFin"
            /\ Len(e[Len(e)].data) = MaxIn

(* ------------------------------------------------------------------------ *)
(* Properties of the tunnel state machine                                   *)
(* ------------------------------------------------------------------------ *)

\* C4: once a data stream has ended, the body that was passed to the origin
\* proxy for it is exactly the bytes that follow the framed request header
\* among the bytes received on the stream, however the stream was cut into
\* StreamData events.
C4_ForwardedBodyIsBytesAfterHeader ==
    \A k \in 1..Len(hist.forwards) :
        LET fw  == hist.forwards[k]
            all == Concat(hist.chunks[fw.stream_id])
        IN  fw.stream_id \in pq.fin_in =>
                fw.body = SubSeq(all, fw.req_hdr_size + 1, Len(all))

\* the response header the state machine builds for an origin answer
ExpectedHeader(origin) ==
    data_stream_build_response(
        data_stream_build_http_metadata(
            IF origin.ret # 0 THEN 502 ELSE origin.status_code, origin.headers),
        4096).out

\* C5: on a data stream the send() calls of the state machine are, in order,
\* the framed ConnectResponse with fin = FALSE and then the origin's body
\* with fin = TRUE (zero-length when the body is empty); the second call is
\* made if and only if the first returned 0, there is no third call, and the
\* bytes queued on the stream are a prefix of header then body.
C5_ResponseHeaderThenBodyWithFin ==
    \A s \in RemoteIds :
        LET q   == hist.sends[s]
            fw  == SelectSeq(hist.forwards, LAMBDA x : x.stream_id = s)
            hdr == ExpectedHeader(fw[1].origin)
        IN  /\ Len(q) <= 2
            /\ Len(fw) <= 1
            /\ q # <<>> =>
                 /\ Len(fw) = 1
                 /\ q[1].data = hdr
                 /\ ~q[1].fin
                 /\ (Len(q) = 2) = (q[1].ret = 0)
                 /\ IsPrefix(hist.queued[s], hdr \o fw[1].origin.body)
            /\ Len(q) = 2 =>
                 /\ q[2].data = fw[1].origin.body
                 /\ q[2].fin

\* a data stream answered with a header and an empty body, both sends
\* accepted and all of it pulled by the transport with the end-of-stream
C5_Witness ==
    \E s \in RemoteIds :
        LET q == hist.sends[s]
        IN  /\ Len(q) = 2
            /\ q[1].ret = 0 /\ q[2].ret = 0
            /\ q[2].data = <<>>
            /\ hist.pull_fins[s] = 1
            /\ hist.pulled[s] = q[1].data

\* the kinds of message that are explicit registration errors
ErrorKinds == {"exception", "canceled", "conn_error"}

\* C6: every complete control-stream message that is an explicit
\* registration error (exception, canceled, ConnectionResponse error) makes
\* the state machine call close() and leave the registration flag alone.
C6_RegistrationErrorCloses ==
    \A k \in 1..Len(hist.decodes) :
        k <= Len(hist.script) /\ hist.script[k].kind \in ErrorKinds =>
            /\ hist.decodes[k].close_calls[2] = hist.decodes[k].close_calls[1] + 1
            /\ hist.decodes[k].registered[2] = hist.decodes[k].registered[1]

\* C7: the state machine marks the connection registered, or closes it,
\* only for a message that is a Return whose answerId is 1.
C7_ActsOnlyOnAnswerToQuestion1 ==
    \A k \in 1..Len(hist.decodes) :
        (k <= Len(hist.script)
            /\ (\/ hist.decodes[k].registered[2] # hist.decodes[k].registered[1]
                \/ hist.decodes[k].close_calls[2] # hist.decodes[k].close_calls[1]))
        => hist.script[k].answer_id = 1

RECURSIVE SizeOfMsgs(_, _)
\* the bytes the first n messages of a script take
SizeOfMsgs(script, n) ==
    IF n = 0 THEN 0 ELSE SizeOfMsgs(script, n - 1) + Len(script[n].bytes)

\* C8: however the control stream is cut into StreamData events, the
\* messages passed to the decoder are the messages of the stream, whole, in
\* stream order and each once; the cursor is the size of the messages
\* decoded and never exceeds the bytes received; no complete message is left
\* undecoded; and a message for which the decoder returns non-zero changes
\* neither the registration flag nor the connection.
C8_WholeMessagesOnceInOrder ==
    LET i == FindFrom(ctx.streams, state.control_stream_id, 1)
        n == Len(hist.decodes)
    IN  /\ n <= Len(hist.script)
        /\ \A k \in 1..n :
             /\ hist.decodes[k].msg = hist.script[k].bytes
             /\ hist.decodes[k].off = SizeOfMsgs(hist.script, k - 1)
             /\ hist.decodes[k].result.ret # 0 =>
                  /\ hist.decodes[k].registered[2] = hist.decodes[k].registered[1]
                  /\ hist.decodes[k].close_calls[2] = hist.decodes[k].close_calls[1]
        /\ n > 0 => i # 0
        /\ i # 0 =>
             /\ state.ctrl_parsed_offset = SizeOfMsgs(hist.script, n)
             /\ state.ctrl_parsed_offset <= Len(ctx.streams[i].recv_buf)
             /\ n < Len(hist.script) =>
                  Len(ctx.streams[i].recv_buf)
                      < SizeOfMsgs(hist.script, n + 1)

\* two messages decoded from a stream that arrived in at least three chunks,
\* the first message skipped
C8_Witness ==
    /\ Len(hist.decodes) = 2
    /\ Len(hist.chunks[0]) >= 3
    /\ hist.decodes[1].result.ret # 0
    /\ state.ctrl_parsed_offset = SizeOfMsgs(hist.script, 2)

\* the kinds of message the decoder reports as protocol errors
ProtocolErrorKinds == {"other_message", "unknown_return", "unknown_connresp"}

ControlRecords == {i \in 1..Len(ctx.streams) : ctx.streams[i].is_control}

\* C10 as stated: in full-tunnel mode, once Connected has been handled there
\* is exactly one stream record flagged as control.
C10_ExactlyOneControlStream ==
    ctx.connected => Cardinality(ControlRecords) = 1

\* C10 amended: once Connected has been handled, open_stream has been called
\* exactly once; there is at most one record flagged as control, and it is
\* the record of the stream that call returned, the first client-initiated
\* stream; the record is there exactly when the call succeeded and the peer
\* has not reset the stream.
C10_AtMostOneControlStream ==
    ctx.connected =>
        /\ Len(hist.opens) = 1
        /\ hist.opens[1].is_control
        /\ Cardinality(ControlRecords) <= 1
        /\ \A i \in ControlRecords :
             /\ ctx.streams[i].stream_id = hist.opens[1].id
             /\ ctx.streams[i].stream_id = state.control_stream_id
             /\ ctx.streams[i].stream_id = 0
        /\ (ControlRecords # {}) =
              (hist.opens[1].id # NoStream /\ 0 \notin pq.reset_in)

\* the control stream and a remote stream both have a record, and both have
\* received bytes
C10_Witness ==
    /\ ctx.connected
    /\ Len(ctx.streams) = 2
    /\ Cardinality(ControlRecords) = 1
    /\ \A i \in 1..2 : ctx.streams[i].recv_buf # <<>>

(* ------------------------------------------------------------------------ *)
(* C11                                                                      *)
(* ------------------------------------------------------------------------ *)

\* the bytes control_stream_encode_register produces for the tunnel's
\* credentials: the Bootstrap message followed by the Call message
RegisterBytes ==
    control_stream_encode_register(state0.auth, state0.tunnel_id_bytes, 0,
                                   state0.conn_options, 4096).out

\* C11: the registration request is passed to send() on the control stream
\* once, by the Connected handler, with fin = false, and never again (not at
\* all before Connected, nor when opening the control stream failed); when
\* send() accepted it, exactly these bytes were queued.  In every state the
\* pending-FIN flag of the control stream is false, and the transport was
\* never handed a final write on it.
C11_RegisterOnceNoFin ==
    /\ Len(hist.sends[0]) =
          (IF ctx.connected /\ hist.opens[1].id # NoStream THEN 1 ELSE 0)
    /\ \A k \in 1..Len(hist.sends[0]) :
          /\ hist.sends[0][k].data = RegisterBytes
          /\ hist.sends[0][k].fin = FALSE
          /\ hist.sends[0][k].ret = 0 =>
                /\ hist.queued[0] = RegisterBytes
                /\ state.registration_sent
    /\ IsPrefix(hist.queued[0], RegisterBytes)
    /\ \A i \in 1..Len(ctx.streams) :
          ctx.streams[i].stream_id = 0 \/ ctx.streams[i].is_control =>
              ~ctx.streams[i].send_fin
    /\ 0 \notin pq.fin_sent
    /\ hist.pull_fins[0] = 0

\* the request was accepted and pulled whole by the transport, and a reply
\* with fin = true has been queued on a data stream in the meantime
C11_Witness ==
    /\ state.registration_sent
    /\ hist.pulled[0] = RegisterBytes
    /\ \E i \in 1..Len(ctx.streams) : ctx.streams[i].is_control
    /\ \E k \in 1..Len(hist.sends[1]) : hist.sends[1][k].fin

(* ------------------------------------------------------------------------ *)
(* C12                                                                      *)
(* ------------------------------------------------------------------------ *)

\* send(s, _, fin = true) has returned 0
FinAccepted(s) ==
    \E k \in 1..Len(hist.sends[s]) :
        hist.sends[s][k].fin /\ hist.sends[s][k].ret = 0

\* C12: once a send() with fin = true has been accepted on a stream, no step
\* appends bytes to that stream's send queue, and once a pull was flagged as
\* the final write no step hands further bytes of the stream to the
\* transport.
C12_NothingQueuedAfterFin ==
    [][\A s \in StreamIds :
          /\ FinAccepted(s) => hist.queued'[s] = hist.queued[s]
          /\ hist.pull_fins[s] > 0 => hist.pulled'[s] = hist.pulled[s]]_vars

(* ------------------------------------------------------------------------ *)
(* C13, C14, C15                                                            *)
(* ------------------------------------------------------------------------ *)

\* C13: every StreamOpenedRemote, StreamData and StreamFin event is
\* dispatched after the Connected event, that is, with ctx->connected set,
\* whatever the order of the transport's callbacks.
C13_StreamEventsAfterConnected ==
    \A s \in StreamIds :
        \A k \in 1..Len(hist.events[s]) : hist.events[s][k].connected

\* C14: Disconnected is dispatched at most once, and every other event is
\* dispatched while ctx->disconnected is still false.
C14_NothingAfterDisconnected ==
    /\ CloseReports <= 1
    /\ \A s \in StreamIds \cup {NoStream} :
          \A k \in 1..Len(hist.events[s]) :
              hist.events[s][k].ev # "Disconnected" =>
                  ~hist.events[s][k].disconnected

\* C15: once the transport has reported a close of either kind, the context
\* is disconnected and Disconnected has been dispatched; the packet loop
\* enters no further phase while the context is disconnected, for
\* tunnel_loop_cb ends it at the end of the current phase and
\* quic_tunnel_run then returns 0; tunnel_loop_cb ends the loop only when
\* the context is disconnected; and a disconnected context leads to run()
\* having returned.
C15_RunReturnsOnDisconnect ==
    /\ [](pq.closed => ctx.disconnected /\ CloseReports >= 1)
    /\ [](~Running /\ pq.loop_ret = PICOQUIC_NO_ERROR_TERMINATE_PACKET_LOOP
             => ctx.disconnected /\ pq.run_ret = 0)
    /\ [][Running /\ ctx.disconnected => pq'.phase = pq.phase]_vars
    /\ (ctx.disconnected ~> ~Running)

\* the application called close(), the transport reported the close during
\* a later receive phase, and run() returned 0 at the end of that phase
C15_Witness ==
    /\ pq.close_calls > 0
    /\ ctx.disconnected
    /\ ~Running
    /\ pq.loop_ret = PICOQUIC_NO_ERROR_TERMINATE_PACKET_LOOP
    /\ pq.run_ret = 0

(* ------------------------------------------------------------------------ *)
(* C16                                                                      *)
(* ------------------------------------------------------------------------ *)

\* C16: when the state machine has taken up the request of a data stream
\* and data_stream_parse_request rejects it, the stream has been reset by
\* the client and no reply byte was queued on it.
C16_BadFramingResetsStream ==
    \A i \in 1..Len(ctx.streams) :
        LET sc == ctx.streams[i]
        IN  /\ sc.request_handled
            /\ \A x \in cfg.wilds :
                  data_stream_parse_request(sc.recv_buf, x).ret # 0
            => /\ sc.stream_id \in pq.reset_out
               /\ hist.queued[sc.stream_id] = <<>>

(* ------------------------------------------------------------------------ *)
(* C17                                                                      *)
(* ------------------------------------------------------------------------ *)

\* the ConnectResponse of a 502: HttpStatus "502" and the Content-Type
\* header, and nothing else
BadGatewayHeader ==
    data_stream_build_response(
        [error |-> <<>>,
         metadata |-> <<[key |-> Txt.HttpStatus, val |-> ProxyTxt.Status502],
                        [key |-> Txt.HttpHeader \o ProxyTxt.ContentType,
                         val |-> ProxyTxt.TextPlain]>>],
        4096).out

\* C17 as stated: every failed forward() yields status 502, the single
\* header Content-Type: text/plain and a body beginning "502 Bad Gateway: ".
C17_BadGatewayAlwaysHasBody ==
    \A k \in 1..Len(hist.forwards) :
        LET r == hist.forwards[k].origin
        IN  /\ r.ret = 0 /\ r.status_code = 502
            /\ r.headers = <<[key |-> ProxyTxt.ContentType,
                              val |-> ProxyTxt.TextPlain]>>
            /\ IsPrefix(ProxyTxt.BadGateway, r.body)

\* C17 amended: every failed forward() yields status 502, the single header
\* Content-Type: text/plain, and a body that begins "502 Bad Gateway: " or,
\* when no buffer could be allocated for it, is empty.  The state machine
\* passes the framed ConnectResponse with HttpStatus "502" and that header
\* to send() with fin = false on the stream of the request and, once that
\* send is accepted, the body with fin = true.
C17_BadGatewaySentBack ==
    /\ Len(hist.forwards) <= 1
    /\ \A k \in 1..Len(hist.forwards) :
        LET r == hist.forwards[k].origin
            q == hist.sends[hist.forwards[k].stream_id]
        IN  /\ r.ret = 0 /\ r.status_code = 502
            /\ r.headers = <<[key |-> ProxyTxt.ContentType,
                              val |-> ProxyTxt.TextPlain]>>
            /\ IsPrefix(ProxyTxt.BadGateway, r.body) \/ r.body = <<>>
            /\ hist.forwards[k].stream_id = 1
            /\ Len(q) \in {1, 2}
            /\ q[1].data = BadGatewayHeader /\ ~q[1].fin
            /\ (Len(q) = 2) = (q[1].ret = 0)
            /\ Len(q) = 2 => q[2].data = r.body /\ q[2].fin
            /\ Len(q) = 2 /\ q[2].ret = 0 =>
                  hist.queued[1] = BadGatewayHeader \o r.body

\* the read of the origin's response failed after its status and headers
\* were stored; the 502 and its body were sent back and pulled by the
\* transport with the end-of-stream marker
C17_Witness ==
    /\ Len(hist.forwards) = 1
    /\ hist.forwards[1].origin =
          ForwardFailure("read", [OriginBody EXCEPT !.body = <<>>], TRUE)
    /\ hist.pulled[1] = BadGatewayHeader \o ProxyTxt.BadGateway \o ProxyTxt.ReadFailed
    /\ 1 \in pq.fin_sent

(* ------------------------------------------------------------------------ *)
(* C18, C19, C20                                                            *)
(* ------------------------------------------------------------------------ *)

\* C18: the readers never read outside the segment: a struct, text or data
\* location that a reader returns lies inside the segment, and a scalar
\* whose location lies outside the segment (also after the offset
\* arithmetic wrapped around) reads as zero.
C18_ReadsStayInsideSegment ==
    /\ hist.sp.ret = 0 =>
          0 <= hist.sp.off /\ hist.sp.off <= hist.r.seg_len
    /\ hist.lp.ptr =>
          0 <= hist.lp.off /\ hist.lp.off + hist.lp.len <= hist.r.seg_len
    /\ ( /\ hist.op \in {"read_uint16", "read_uint8", "read_bool"}
         /\ \/ hist.loc < 0
            \/ hist.loc + (IF hist.op = "read_uint16" THEN 2 ELSE 1) > hist.r.seg_len )
          => hist.val = 0

ReadStructPtrDone ==
    hist.op \in {"write_struct_ptr/read_struct_ptr", "write_list_ptr/read_struct_ptr",
                 "poke/read_struct_ptr"}

\* C19: read_struct_ptr fails on the all-zero word, on a word whose low two
\* bits are not 0 and on a target outside the segment; when it succeeds the
\* target it returns is inside the segment.
C19_ReadStructPtrRejects ==
    ReadStructPtrDone =>
        /\ WordIsZero(hist.r, hist.at) => hist.sp.ret = -1
        /\ SegAt(hist.r, hist.at) % 4 # 0 => hist.sp.ret = -1
        /\ hist.sp.ret = 0 => 0 <= hist.sp.off /\ hist.sp.off <= hist.r.seg_len

\* write_struct_ptr(at, target, d, p) with target inside the segment, before
\* or after the pointer word, followed by read_struct_ptr(at)
RoundTripDone ==
    /\ hist.op = "write_struct_ptr/read_struct_ptr"
    /\ hist.target \in WordOffsets /\ hist.target # hist.at

\* C20 as stated: read_struct_ptr(at) after write_struct_ptr(at, target, d, p)
\* succeeds and returns exactly (target, d, p).
C20_RoundTripAlways ==
    RoundTripDone =>
        hist.sp = [ret |-> 0, off |-> hist.target, dw |-> hist.dw, pc |-> hist.pc]

\* C20 amended: read_struct_ptr(at) after write_struct_ptr(at, target, d, p)
\* succeeds and returns exactly (target, d, p), except for a struct of no
\* words immediately after the pointer (target = at + 8, d = p = 0): the word
\* written is then all zero and read_struct_ptr fails.
C20_RoundTripUnlessNull ==
    RoundTripDone =>
        IF hist.target = hist.at + 8 /\ hist.dw = 0 /\ hist.pc = 0
        THEN WordIsZero(hist.r, hist.at) /\ hist.sp.ret = -1
        ELSE hist.sp = [ret |-> 0, off |-> hist.target, dw |-> hist.dw,
                        pc |-> hist.pc]

\* a pointer to a struct before the pointer word, with the largest data
\* section, written over non-zero bytes and read back
C20_Witness ==
    /\ RoundTripDone
    /\ hist.target < hist.at /\ hist.dw = 65535 /\ hist.pc = 1
    /\ hist.r.mem[1] = 255
    /\ hist.sp = [ret |-> 0, off |-> hist.target, dw |-> 65535, pc |-> 1]

(* ------------------------------------------------------------------------ *)
(* C21, C22                                                                 *)
(* ------------------------------------------------------------------------ *)

\* C21: read_text(at) after a write_text(at, s) that fitted the builder
\* yields a slice of length |s| equal to s, the list count being |s| + 1
\* with a NUL behind the text; for the empty string write_text allocates
\* nothing and the 8 bytes at `at` are all zero.
C21_TextRoundTrip ==
    (hist.op = "write_text/read_text") =>
        IF hist.text = <<>>
        THEN /\ hist.b.pos = hist.pos0
             /\ Slice(hist.b.buf, hist.at, 8) = Zeros(8)
             /\ hist.lp = NoListPtr
        ELSE /\ hist.lp.ptr /\ hist.lp.len = Len(hist.text)
             /\ 0 <= hist.lp.off /\ hist.lp.off + hist.lp.len < hist.b.pos
             /\ Slice(hist.b.buf, hist.lp.off, hist.lp.len) = hist.text
             /\ At(hist.b.buf, hist.lp.off + hist.lp.len) = 0
             /\ ListCount(BuilderReader(hist.b, 0), hist.at) = Len(hist.text) + 1

\* a text of 8 characters, whose NUL needs a second word, written behind
\* an earlier allocation and read back
C21_Witness ==
    /\ hist.op = "write_text/read_text"
    /\ Len(hist.text) = 8 /\ hist.pos0 > 8 /\ hist.b.pos = hist.pos0 + 16
    /\ hist.lp.ptr /\ hist.lp.len = 8

\* C22: finalize emits the 8-byte header (0, segment word count) followed
\* by the word-padded segment; wire_message_size of the blob is the length
\* finalize returned and wire_message_size of every strict prefix is 0.
C22_FramingSize ==
    /\ (hist.op \in {"finalize", "wire_size"} /\ hist.blob # <<>>) =>
          /\ Len(hist.blob) = 8 + align8(hist.b.pos)
          /\ Len(hist.blob) <= hist.out_cap
          /\ Slice(hist.blob, 0, 8) = le32(0) \o le32(align8(hist.b.pos) \div 8)
          /\ Slice(hist.blob, 8, hist.b.pos) = hist.b.buf
    /\ (hist.op = "finalize" /\ hist.blob = <<>>) =>
          8 + align8(hist.b.pos) > hist.out_cap
    /\ hist.op = "wire_size" =>
          hist.size = (IF hist.n = Len(hist.blob) THEN Len(hist.blob) ELSE 0)

\* a builder holding a text was framed and both the whole blob and a prefix
\* that ends behind the header were measured
C22_Witness ==
    /\ hist.op = "wire_size" /\ hist.b.pos >= 16 /\ hist.text # <<>>
    /\ hist.n = Len(hist.blob) /\ hist.size = 8 + hist.b.pos

(* ------------------------------------------------------------------------ *)
(* C23                                                                      *)
(* ------------------------------------------------------------------------ *)

\* the reader of the single-segment message framed in out[base .. base+len-1]
FramedReader(out, base, len) == capnp_read_message(out, base, len, 0).r

\* the struct that the pointer at ptr_offset of reader r leads to
StructAt(r, ptr_offset) == capnp_read_struct_ptr(r, ptr_offset)

\* the little-endian number in the n bytes of r's segment at off
SegNum(r, off, n) ==
    LET RECURSIVE num(_)
        num(i) == IF i = n THEN 0 ELSE SegAt(r, off + i) + 256 * num(i + 1)
    IN  num(0)

\* encode_register's output out is a Bootstrap with questionId 0 followed by
\* a Call with questionId 1, methodId 0, the TunnelServer interface id,
\* sendResultsTo caller and a promisedAnswer target for question 0
IsRegisterRequest(out) ==
    LET n1   == capnp_wire_message_size(out, 0, Len(out))
        n2   == capnp_wire_message_size(out, n1, Len(out) - n1)
        r1   == FramedReader(out, 0, n1)
        r2   == FramedReader(out, n1, n2)
        m1   == StructAt(r1, 0)
        boot == StructAt(r1, m1.off + m1.dw * 8)
        m2   == StructAt(r2, 0)
        call == StructAt(r2, m2.off + m2.dw * 8)
        tgt  == StructAt(r2, call.off + call.dw * 8)
        pa   == StructAt(r2, tgt.off + tgt.dw * 8)
    IN  /\ n1 > 0 /\ n2 > 0 /\ n1 + n2 = Len(out)
        /\ m1.ret = 0 /\ m1.dw >= 1 /\ m1.pc >= 1
        /\ capnp_read_uint16(r1, m1.off, 0) = 8
        /\ boot.ret = 0 /\ boot.dw >= 1 /\ SegNum(r1, boot.off, 4) = 0
        /\ m2.ret = 0 /\ m2.dw >= 1 /\ m2.pc >= 1
        /\ capnp_read_uint16(r2, m2.off, 0) = 2
        /\ call.ret = 0 /\ call.dw = 3 /\ call.pc = 3
        /\ SegNum(r2, call.off, 4) = 1
        /\ capnp_read_uint16(r2, call.off, 4) = 0
        /\ capnp_read_uint16(r2, call.off, 6) = 0
        /\ SegBytes(r2, call.off + 8, 8) = <<151, 84, 232, 127, 236, 149, 22, 247>>
        /\ tgt.ret = 0 /\ tgt.dw >= 1 /\ tgt.pc >= 1
        /\ capnp_read_uint16(r2, tgt.off, 4) = 1
        /\ pa.ret = 0 /\ pa.dw >= 1 /\ SegNum(r2, pa.off, 4) = 0

\* C23: when encode_register succeeds its output is exactly two framed
\* single-segment messages whose sizes sum to the reported length: a
\* Bootstrap (discriminant 8) with questionId 0, then a Call (discriminant 2)
\* with questionId 1, methodId 0, interfaceId 0xf71695ec7fe85497,
\* sendResultsTo discriminant 0 and a promisedAnswer target for question 0.
C23_RegisterIsBootstrapThenCall ==
    (hist.op = "encode_register" /\ hist.res.ret = 0) =>
        /\ Len(hist.res.out) <= hist.arg.buf_cap
        /\ IsRegisterRequest(hist.res.out)

\* a registration with every field present, encoded into a buffer that it
\* does not fill
C23_Witness ==
    /\ hist.op = "encode_register" /\ hist.res.ret = 0
    /\ hist.arg.conn_index = 3 /\ Len(hist.arg.auth.account_tag) = 8
    /\ hist.arg.auth.tunnel_secret # <<>> /\ hist.arg.tunnel_id # <<>>
    /\ hist.arg.options.client_id # <<>> /\ hist.arg.options.replace_existing
    /\ Len(hist.res.out) > 48 /\ Len(hist.res.out) < hist.arg.buf_cap

(* ------------------------------------------------------------------------ *)
(* C24, C25                                                                 *)
(* ------------------------------------------------------------------------ *)

\* "0123456789abcdef"
LowerHex == <<48, 49, 50, 51, 52, 53, 54, 55, 56, 57, 97, 98, 99, 100, 101, 102>>

\* the two lower-case hex digits of the bytes u[i..j], in order
RECURSIVE HexOf(_, _, _)
HexOf(u, i, j) ==
    IF i > j THEN <<>>
    ELSE <<LowerHex[(u[i] \div 16) + 1], LowerHex[(u[i] % 16) + 1]>> \o HexOf(u, i + 1, j)

\* the hyphenated 8-4-4-4-12 form of 16 bytes
CanonicalUuid(u) ==
    HexOf(u, 1, 4) \o <<45>> \o HexOf(u, 5, 6) \o <<45>> \o HexOf(u, 7, 8)
        \o <<45>> \o HexOf(u, 9, 10) \o <<45>> \o HexOf(u, 11, 16)

DetailsDecoded(location) ==
    /\ hist.res.ret = 0 /\ hist.res.success /\ hist.res.error = <<>>
    /\ hist.res.uuid = CanonicalUuid(hist.arg.uuid)
    /\ hist.res.location = location
    /\ hist.res.tunnel_is_remote = (hist.arg.byte0 % 2 = 1)

\* C24 as stated: for a Return{results} that leads to a ConnectionResponse
\* with discriminant 1, decode_response reports success with an empty
\* error, the uuid in lower-case hyphenated hex, the location text, and
\* tunnel_is_remote = bit 0 of data byte 0.
C24_DetailsDecodedInFull ==
    hist.op = "decode_details" => DetailsDecoded(hist.arg.location)

\* C24 amended: as stated, with location equal to the first 31 characters
\* of the location text (the capacity of the result's location field).
C24_DetailsDecodedTruncated ==
    hist.op = "decode_details" =>
        DetailsDecoded(SubSeq(hist.arg.location, 1,
                              IF Len(hist.arg.location) < 31
                              THEN Len(hist.arg.location) ELSE 31))

\* bytes 00 11 .. FF and "SJC" give "00112233-4455-6677-8899-aabbccddeeff"
\* and "SJC"
C24_Witness ==
    /\ hist.op = "decode_details"
    /\ hist.arg.uuid = [i \in 1..16 |-> 17 * (i - 1)] /\ hist.arg.byte0 = 3
    /\ hist.res.success /\ hist.res.tunnel_is_remote
    /\ hist.res.uuid = <<48, 48, 49, 49, 50, 50, 51, 51, 45, 52, 52, 53, 53, 45,
                         54, 54, 55, 55, 45, 56, 56, 57, 57, 45, 97, 97, 98, 98,
                         99, 99, 100, 100, 101, 101, 102, 102>>
    /\ hist.res.location = <<83, 74, 67>>

\* C25: for a Return{exception} with reason r, decode_response returns 0
\* with success = false, error = r truncated to the 255 characters of the
\* error field and should_retry = true; for a Return{canceled} it returns 0
\* with error "registration canceled" and success = false.
C25_ExceptionAndCanceled ==
    /\ hist.op = "decode_exception" =>
          /\ hist.res.ret = 0 /\ ~hist.res.success /\ hist.res.should_retry
          /\ hist.res.error = SubSeq(hist.arg.reason, 1,
                                     IF Len(hist.arg.reason) < 255
                                     THEN Len(hist.arg.reason) ELSE 255)
    /\ hist.op = "decode_canceled" =>
          /\ hist.res.ret = 0 /\ ~hist.res.success
          /\ hist.res.error = <<114, 101, 103, 105, 115, 116, 114, 97, 116, 105,
                                111, 110, 32, 99, 97, 110, 99, 101, 108, 101, 100>>

\* an exception whose reason exceeds the error field was decoded
C25_Witness ==
    /\ hist.op = "decode_exception" /\ Len(hist.arg.reason) = 300
    /\ Len(hist.res.error) = 255 /\ hist.res.should_retry /\ hist.res.ret = 0

(* ------------------------------------------------------------------------ *)
(* C26                                                                      *)
(* ------------------------------------------------------------------------ *)

\* 0A 36 CD 12 A1 3E "01"
DataStreamPreamble == <<10, 54, 205, 18, 161, 62, 48, 49>>

PreambleMatches(data) ==
    Len(data) >= 8 /\ SubSeq(data, 1, 8) = DataStreamPreamble

\* C26: parse_request fails, surfacing no request, for every buffer shorter
\* than 8 bytes and for every buffer whose first 8 bytes differ from the
\* signature 0A 36 CD 12 A1 3E followed by "01"; when the preamble matches
\* the result is that of decoding the bytes after it.
C26_PreambleEnforced ==
    hist.op = "parse_request" =>
        IF PreambleMatches(hist.arg.data)
        THEN hist.res = capnp_decode_connect_request(hist.arg.data, 8,
                             Len(hist.arg.data) - 8, hist.arg.wild)
        ELSE /\ hist.res.ret = -1
             /\ hist.res.dest = <<>> /\ hist.res.metadata = <<>>

\* a request whose payload decodes, refused because the version is "00"
C26_Witness ==
    /\ hist.op = "parse_request" /\ hist.res.ret = -1
    /\ Len(hist.arg.data) > 8
    /\ SubSeq(hist.arg.data, 1, 7) = SubSeq(DataStreamPreamble, 1, 7)
    /\ hist.arg.data[8] = 50
    /\ capnp_decode_connect_request(hist.arg.data, 8, Len(hist.arg.data) - 8,
                                    hist.arg.wild).ret = 0

(* ------------------------------------------------------------------------ *)
(* C27                                                                      *)
(* ------------------------------------------------------------------------ *)

\* the decimal text of the status codes of the model
StatusText == [s \in {7, 200, 404} |->
                 IF s = 7 THEN <<55>> ELSE IF s = 200 THEN <<50, 48, 48>>
                 ELSE <<52, 48, 52>>]

\* [(HttpStatus, decimal status), (HttpHeader:<name>, value), ...]
ExpectedMetadata(status_code, headers) ==
    <<[key |-> <<72, 116, 116, 112, 83, 116, 97, 116, 117, 115>>,
       val |-> StatusText[status_code]]>>
    \o [i \in 1..Len(headers) |->
          [key |-> <<72, 116, 116, 112, 72, 101, 97, 100, 101, 114, 58>>
                     \o headers[i].key,
           val |-> headers[i].val]]

\* C27: the framed message that build_response produces from
\* build_http_metadata(status, headers) starts with the 8-byte preamble and
\* its payload decodes to an empty error and exactly the metadata
\* [(HttpStatus, decimal status), (HttpHeader:<name>, value), ...] in the
\* order of the headers; the composite list, with its tag word, occupies
\* 1 + 2*N words for the N metadata entries.
C27_ResponseShape ==
    (hist.op = "build_response" /\ hist.res.ret = 0) =>
        LET out == hist.res.out
            dec == capnp_decode_connect_request(out, 8, Len(out) - 8, 170)
            r   == FramedReader(out, 8, Len(out) - 8)
            root == StructAt(r, 0)
            n   == Len(hist.arg.headers) + 1
        IN  /\ Len(out) <= hist.arg.buf_cap
            /\ SubSeq(out, 1, 8) = DataStreamPreamble
            /\ capnp_wire_message_size(out, 8, Len(out) - 8) = Len(out) - 8
            /\ dec.ret = 0 /\ dec.dest = <<>>
            /\ dec.metadata = ExpectedMetadata(hist.arg.status_code, hist.arg.headers)
            /\ root.ret = 0 /\ root.dw = 0 /\ root.pc = 2
            /\ SegAt(r, root.off + 8 + 4) % 8 = 7
            /\ ListCount(r, root.off + 8) = 1 + 2 * n
            /\ PtrOffWords(r, root.off + 8 + 8 + OffBytes(PtrOffWords(r, root.off + 8))) = n

\* status 404 with three headers, one name twice, built and decoded in order
C27_Witness ==
    /\ hist.op = "build_response" /\ hist.res.ret = 0
    /\ hist.arg.status_code = 404 /\ Len(hist.arg.headers) = 3
    /\ hist.arg.headers[1].key = hist.arg.headers[3].key
    /\ Len(capnp_decode_connect_request(hist.res.out, 8, Len(hist.res.out) - 8,
                                        0).metadata) = 4

(* ------------------------------------------------------------------------ *)
(* C28                                                                      *)
(* ------------------------------------------------------------------------ *)

\* the characters of base64 text
IsBase64Text(t) ==
    \A i \in 1..Len(t) :
        t[i] \in 65..90 \/ t[i] \in 97..122 \/ t[i] \in 48..57
            \/ t[i] \in {43, 47, 61, 10, 13, 32}

\* full mode started with a credential missing or unparsable
CredentialsRefused ==
    /\ hist.env.mode = ModeFull
    /\ \/ Unset \in {hist.env.tunnel_id, hist.env.account_tag, hist.env.secret}
       \/ parse_uuid(hist.env.tunnel_id).ret # 0
       \/ ~IsBase64Text(hist.env.secret)

\* C28: the process exits with a non-zero code when credential parsing
\* fails in full mode or when the transport setup (connect) fails, and with
\* zero on a clean shutdown, handshake-only mode included.
C28_ExitCode ==
    hist.op \in {"full_tunnel", "phase3_test"} =>
        IF CredentialsRefused THEN hist.exit_code # 0
        ELSE IF hist.connect_ret # 0
                  /\ (hist.op = "phase3_test" \/ hist.proxy_ret = 0)
        THEN hist.exit_code # 0
        ELSE hist.proxy_ret = 0 \/ hist.op = "phase3_test" => hist.exit_code = 0

(* ------------------------------------------------------------------------ *)
(* C29                                                                      *)
(* ------------------------------------------------------------------------ *)

\* the origin calls made for stream s
ForwardsOf(h, s) == SelectSeq(h.forwards, LAMBDA f : f.stream_id = s)

\* the records of stream s in a stream table
RecordsOf(streams, s) == {i \in 1..Len(streams) : streams[i].stream_id = s}

\* nothing was done for stream s in this step: no origin call and no send
NoActionOn(s) ==
    /\ ForwardsOf(hist', s) = ForwardsOf(hist, s)
    /\ hist'.sends[s] = hist.sends[s]
    /\ hist'.queued[s] = hist.queued[s]

\* C29: the origin is called at most once for a data stream; once its
\* record is marked request-handled no later event on it causes an origin
\* call or a send; and as long as no complete framed request is buffered
\* the events on it cause no origin call and no send and leave the record
\* unhandled.
C29_OriginCalledOnce ==
    [][\A s \in StreamIds \ {state.control_stream_id, state'.control_stream_id} :
          /\ Len(ForwardsOf(hist', s)) <= 1
          /\ (\E i \in RecordsOf(ctx.streams, s) : ctx.streams[i].request_handled)
                => NoActionOn(s)
          /\ \A i \in RecordsOf(ctx'.streams, s) :
                data_stream_request_size(ctx'.streams[i].recv_buf) = 0
                    => NoActionOn(s) /\ ~ctx'.streams[i].request_handled]_vars

\* the origin was called for stream 1, and bytes arrived on it afterwards
C29_Witness ==
    /\ Len(ForwardsOf(hist, 1)) = 1
    /\ \E i \in RecordsOf(ctx.streams, 1) :
          /\ ctx.streams[i].request_handled
          /\ Len(ctx.streams[i].recv_buf) >
                 hist.forwards[1].req_hdr_size + Len(hist.forwards[1].body)
          /\ ctx.streams[i].recv_fin

(* ------------------------------------------------------------------------ *)
(* C30                                                                      *)
(* ------------------------------------------------------------------------ *)

\* this step is a prepare-to-send pull on stream s that handed something
\* over: bytes, the final-write flag, or both
PullOn(s) ==
    \/ hist'.pulled[s] # hist.pulled[s]
    \/ hist'.pull_fins[s] # hist.pull_fins[s]

\* what a pull on s hands over, from the record before the pull
PullRule(s) ==
    \E i \in RecordsOf(ctx.streams, s) :
        LET sc    == ctx.streams[i]
            avail == Len(sc.send_buf) - sc.send_offset
            delta == Len(hist'.pulled[s]) - Len(hist.pulled[s])
            final == hist'.pull_fins[s] = hist.pull_fins[s] + 1
        IN  /\ \E length \in cfg.windows : delta = Min(avail, length)
            /\ hist'.pulled[s]
                  = hist.pulled[s] \o Slice(sc.send_buf, sc.send_offset, delta)
            /\ final \/ hist'.pull_fins[s] = hist.pull_fins[s]
            /\ final <=> (sc.send_fin /\ delta = avail)
            /\ final => \A j \in RecordsOf(ctx'.streams, s) :
                            ~ctx'.streams[j].send_fin

\* the number of send(s, _, fin = true) calls that returned 0
FinSends(s) ==
    Cardinality({k \in 1..Len(hist.sends[s]) :
                    hist.sends[s][k].fin /\ hist.sends[s][k].ret = 0})

\* while the record of s lives, every accepted send(fin = true) has had its
\* end-of-stream marker or still waits for it, and a marker comes behind
\* every byte queued on the stream
OneMarkerPerFin(s) ==
    RecordsOf(ctx.streams, s) # {} =>
        /\ FinSends(s) <= hist.pull_fins[s]
              + (IF \E i \in RecordsOf(ctx.streams, s) : ctx.streams[i].send_fin
                 THEN 1 ELSE 0)
        /\ hist.pull_fins[s] > 0 => hist.pulled[s] = hist.queued[s]

\* C30: a pull hands over min(queued-but-unsent bytes, window) bytes, is the
\* final write exactly when pending-FIN is set and the pull reaches the end
\* of the queued bytes, and clears pending-FIN then; so each accepted
\* send(fin = true) produces exactly one end-of-stream marker, and none
\* before the last queued byte.
C30_PullAndMarker ==
    [][\A s \in StreamIds :
          /\ PullOn(s) => PullRule(s)
          /\ OneMarkerPerFin(s)']_vars

\* the first half of C30 alone
PullRuleAlways == [][\A s \in StreamIds : PullOn(s) => PullRule(s)]_vars

(* ------------------------------------------------------------------------ *)
(* C31                                                                      *)
(* ------------------------------------------------------------------------ *)

\* stream s has a record with unsent bytes or a pending FIN, and the
\* transport asks it for data
PullPending(s) ==
    /\ Alive /\ pq.ready
    /\ s \in pq.active /\ s \notin pq.fin_sent /\ s \notin pq.reset_out
    /\ \E i \in RecordsOf(ctx.streams, s) :
          \/ Len(ctx.streams[i].send_buf) > ctx.streams[i].send_offset
          \/ ctx.streams[i].send_fin

\* every queued byte of s was pulled, no FIN is pending and the send buffer
\* is released
Drained(s) ==
    /\ hist.pulled[s] = hist.queued[s]
    /\ \A i \in RecordsOf(ctx.streams, s) :
          /\ ctx.streams[i].send_buf = <<>>
          /\ ctx.streams[i].send_offset = 0
          /\ ~ctx.streams[i].send_fin

\* the connection ended, the record of s was destroyed, or the stream was
\* reset after the peer's stop-sending
PullingEnded(s) ==
    ~Alive \/ RecordsOf(ctx.streams, s) = {} \/ s \in pq.reset_out

\* a send buffer is never kept once it is fully consumed
ReleasedWhenConsumed ==
    \A i \in 1..Len(ctx.streams) :
        IF ctx.streams[i].send_buf = <<>> THEN ctx.streams[i].send_offset = 0
        ELSE ctx.streams[i].send_offset < Len(ctx.streams[i].send_buf)

\* a step of the transport on a stream with nothing queued and no pending
\* FIN hands over nothing and leaves the multiplexer as it was
EmptyPullInert ==
    \A s \in StreamIds :
        (\E i \in RecordsOf(ctx.streams, s) :
            /\ Len(ctx.streams[i].send_buf) = ctx.streams[i].send_offset
            /\ ~ctx.streams[i].send_fin)
        => /\ hist'.pulled[s] = hist.pulled[s]
           /\ hist'.pull_fins[s] = hist.pull_fins[s]
           /\ (s \in pq.active /\ pq' = [pq EXCEPT !.active = @ \ {s}])
                 => ctx' = ctx /\ hist' = hist

\* C31: while the transport keeps issuing prepare-to-send on a stream with
\* queued bytes or a pending FIN, eventually every queued byte has been
\* pulled, the pending end-of-stream marker emitted and the send buffer
\* released (unless the connection ends, the record is destroyed or the
\* stream is reset first);
\* the buffer is released as soon as it is fully consumed; and a pull with
\* nothing queued and no pending FIN hands over nothing and changes nothing.
C31_QueueDrains ==
    /\ \A s \in StreamIds : PullPending(s) ~> (Drained(s) \/ PullingEnded(s))
    /\ []ReleasedWhenConsumed
    /\ [][EmptyPullInert]_vars

\* a send buffer was pulled in two parts, the second one being the final
\* write, and is released
C31_Witness ==
    \E s \in StreamIds :
        /\ Len(hist.pulled[s]) > MaxWindow
        /\ hist.pull_fins[s] = 1
        /\ Drained(s)
        /\ RecordsOf(ctx.streams, s) # {}

(* ------------------------------------------------------------------------ *)
(* C32                                                                      *)
(* ------------------------------------------------------------------------ *)

\* C32: once the peer has reset a stream the multiplexer holds no record of
\* it (find_stream returns none), every later send() on that id fails, and
\* no StreamOpenedRemote, StreamData or StreamFin event is delivered for it.
C32_ResetRemovesRecord ==
    [][\A s \in StreamIds :
          s \in pq'.reset_in =>
              /\ RecordsOf(ctx'.streams, s) = {}
              /\ quic_tunnel_find_stream(World(0, NoOrigin, 0), s)' = 0
              /\ hist'.events[s] = hist.events[s]
              /\ Len(hist'.sends[s]) > Len(hist.sends[s])
                    => hist'.sends[s][Len(hist'.sends[s])].ret # 0]_vars

\* a stream that had received data and accepted a send was reset by the
\* peer, and a later send on it failed
C32_Witness ==
    \E s \in StreamIds :
        /\ s \in pq.reset_in
        /\ RecordsOf(ctx.streams, s) = {}
        /\ \E k \in 1..Len(hist.events[s]) : hist.events[s][k].ev = "StreamData"
        /\ Len(hist.sends[s]) = 2
        /\ hist.sends[s][1].ret = 0 /\ hist.sends[s][1].data # <<>>
        /\ hist.sends[s][2].ret # 0

(* ------------------------------------------------------------------------ *)
(* C33                                                                      *)
(* ------------------------------------------------------------------------ *)

\* C33: the stream collection holds at most one record per stream id, and
\* find_stream(id) returns that record as long as it exists.
C33_OneRecordPerStream ==
    \A s \in StreamIds :
        /\ Cardinality(RecordsOf(ctx.streams, s)) <= 1
        /\ IF RecordsOf(ctx.streams, s) = {}
           THEN quic_tunnel_find_stream(World(0, NoOrigin, 0), s) = 0
           ELSE quic_tunnel_find_stream(World(0, NoOrigin, 0), s)
                    \in RecordsOf(ctx.streams, s)

\* the stream opened by the application and the stream opened by the peer
\* both have their record, the peer's stream after several callbacks
C33_Witness ==
    /\ Len(ctx.streams) = 2
    /\ \A s \in StreamIds : Cardinality(RecordsOf(ctx.streams, s)) = 1
    /\ \E s \in RemoteIds : Len(hist.events[s]) >= 3

(* ------------------------------------------------------------------------ *)
(* C34                                                                      *)
(* ------------------------------------------------------------------------ *)

\* the bytes of the script, in order
ScriptBytes(script) ==
    Concat([i \in 1..Len(script) |-> script[i].bytes])

\* the body bytes the origin sent: what follows the header section
SentBody(script) ==
    LET t == ScriptBytes(script)
        e == StrStr(t, HttpTxt.CRLFCRLF, 0)
    IN  IF e = -1 THEN <<>> ELSE SubSeq(t, e + 5, Len(t))

\* C34: with a Content-Length of L the body returned consists of body bytes
\* read from the origin: the first L of them, or the bytes received before
\* the origin closed when it closes early; the reported body length never
\* exceeds the number of body bytes received.
C34_BodyIsWhatWasRead ==
    (/\ hist.op = "read_http_response"
     /\ hist.resp.ret = 0
     /\ FindContentLength(hist.resp.headers).have)
    => /\ hist.resp.body_len <= hist.received
       /\ hist.resp.body_len = Len(hist.resp.body)
       /\ hist.resp.body
             = SubSeq(SentBody(hist.script), 1,
                      Min(FindContentLength(hist.resp.headers).len,
                          Len(SentBody(hist.script))))

(* ------------------------------------------------------------------------ *)
(* C35                                                                      *)
(* ------------------------------------------------------------------------ *)

\* stream s is marked request-handled
Handled(s) ==
    \E i \in RecordsOf(ctx.streams, s) : ctx.streams[i].request_handled

\* the request of s could not be parsed
ParseFailed(s) == Handled(s) /\ ForwardsOf(hist, s) = <<>>

\* the response header of s could not be built
BuildFailed(s) ==
    Handled(s) /\ ForwardsOf(hist, s) # <<>> /\ hist.sends[s] = <<>>

\* the response header of s could not be queued
HeaderSendFailed(s) ==
    Handled(s) /\ hist.sends[s] # <<>> /\ hist.sends[s][1].ret # 0

ReplyFailed(s) == ParseFailed(s) \/ BuildFailed(s) \/ HeaderSendFailed(s)

\* C35: after a failure of the parse, of the build of the response header or
\* of the send of the response header on a request-handled data stream, no
\* FIN is queued or emitted, no reset is issued and nothing is retried; the
\* record stays as it is until the peer resets the stream or the connection
\* ends.
C35_FailedReplyLeftOpen ==
    [][\A s \in StreamIds \ {state.control_stream_id} :
          ReplyFailed(s) =>
              /\ \A i \in RecordsOf(ctx.streams, s) : ~ctx.streams[i].send_fin
              /\ s \notin pq.fin_sent /\ s \notin pq.reset_out
              /\ hist.pull_fins[s] = 0
              /\ Len(hist.sends[s]) <= 1 /\ Len(ForwardsOf(hist, s)) <= 1
              /\ (s \notin pq'.reset_in /\ ~pq'.closed) => ReplyFailed(s)']_vars

\* the response header could not be built, and the peer has ended its side
C35_Witness ==
    \E s \in RemoteIds :
        /\ BuildFailed(s)
        /\ \E i \in RecordsOf(ctx.streams, s) : ctx.streams[i].recv_fin

\* the request could not be parsed
C35_ParseFailedReached == \E s \in RemoteIds : ParseFailed(s)

\* the response header could not be queued
C35_HeaderSendFailedReached == \E s \in RemoteIds : HeaderSendFailed(s)

(* ------------------------------------------------------------------------ *)
(* C36                                                                      *)
(* ------------------------------------------------------------------------ *)

\* the words a text takes in the segment: its characters and the NUL,
\* rounded up to words; an empty text takes none
TextWords(t) == IF t = <<>> THEN 0 ELSE (Len(t) + 1 + 7) \div 8

RECURSIVE EntryWords(_)
\* the words of the key and value texts of the entries
EntryWords(metadata) ==
    IF metadata = <<>> THEN 0
    ELSE TextWords(Head(metadata).key) + TextWords(Head(metadata).val)
            + EntryWords(Tail(metadata))

\* root pointer and struct, the composite list, the texts
ResponseWords(resp) ==
    3 + (IF resp.metadata = <<>> THEN 0 ELSE 1 + 2 * Len(resp.metadata))
      + EntryWords(resp.metadata) + TextWords(resp.error)

\* the response is within the limits of cf_connect_response_t
WithinLimits(resp) ==
    /\ Len(resp.metadata) <= CF_MAX_METADATA
    /\ \A i \in 1..Len(resp.metadata) :
          Len(resp.metadata[i].key) <= 127 /\ Len(resp.metadata[i].val) <= 511

\* C36 as stated: whatever the output capacity, build_response fails, with
\* no output, exactly when the response takes more than 256 words.
C36_FailsExactlyOver256Words ==
    hist.op = "build_response" =>
        /\ hist.res.ret # 0 <=> ResponseWords(hist.arg.resp) > 256
        /\ hist.res.ret # 0 => hist.res.out = <<>>

\* C36: build_response encodes through a working segment of 2048 bytes (256
\* words) whatever the output capacity; it fails, with no output, exactly
\* when the response takes more than 256 words, or the output capacity is
\* under 72 bytes, or the output capacity is under the framed message
\* (preamble, 8-byte header and the words).
C36_FailsOver256WordsOrCapacity ==
    hist.op = "build_response" =>
        /\ hist.res.ret # 0 <=>
              \/ ResponseWords(hist.arg.resp) > 256
              \/ hist.arg.buf_cap < PREAMBLE_LEN + 64
              \/ hist.arg.buf_cap
                    < PREAMBLE_LEN + 8 + 8 * ResponseWords(hist.arg.resp)
        /\ hist.res.ret # 0 => hist.res.out = <<>>
        /\ hist.res.ret = 0 =>
              Len(hist.res.out)
                  = PREAMBLE_LEN + 8 + 8 * ResponseWords(hist.arg.resp)

\* a response within the limits that takes 257 words fails to encode into
\* the 4096 bytes of the state machine
C36_Witness ==
    /\ hist.op = "build_response"
    /\ hist.arg.buf_cap = 4096
    /\ WithinLimits(hist.arg.resp)
    /\ ResponseWords(hist.arg.resp) = 257
    /\ hist.res.ret # 0

\* a response of exactly 256 words is encoded
C36_FullSegmentReached ==
    /\ hist.op = "build_response"
    /\ ResponseWords(hist.arg.resp) = 256
    /\ hist.res.ret = 0

(* ------------------------------------------------------------------------ *)
(* C37                                                                      *)
(* ------------------------------------------------------------------------ *)

\* the state machine has called close() and Disconnected has not arrived
CloseCalled == pq.close_calls > 0 /\ ~ctx.disconnected

\* the control stream's buffer holds no complete message that is not decoded
ControlConsumed(streams, st) ==
    \A i \in RecordsOf(streams, st.control_stream_id) :
        \/ st.ctrl_parsed_offset >= Len(streams[i].recv_buf)
        \/ capnp_wire_message_size(
               streams[i].recv_buf, st.ctrl_parsed_offset,
               Len(streams[i].recv_buf) - st.ctrl_parsed_offset) = 0

\* the record of data stream s holds a complete request
RequestComplete(streams, s) ==
    \E i \in RecordsOf(streams, s) :
        data_stream_request_size(streams[i].recv_buf) > 0

\* the decoded messages tell what was done with them, close() called before
\* or not
DecodesActedOn ==
    \A k \in 1..Len(hist.decodes) :
        LET d == hist.decodes[k]
        IN  /\ d.result.ret = 0 /\ d.result.success => d.registered[2]
            /\ d.registered[1] => d.registered[2]

\* C37: the registered flag is never cleared; after the state machine has
\* called close() the complete messages in the control stream's buffer are
\* still decoded, a success Return among them marking the connection
\* registered, and a data stream's request that becomes complete before
\* Disconnected is still handled and forwarded to the origin.
C37_NoStopAtClose ==
    [][/\ state.registered => state'.registered
       /\ DecodesActedOn'
       /\ (CloseCalled /\ ~pq'.cb_error =>
             /\ ControlConsumed(ctx'.streams, state')
             /\ \A s \in RemoteIds :
                   ~RequestComplete(ctx.streams, s)
                       /\ RequestComplete(ctx'.streams, s) =>
                   /\ \E i \in RecordsOf(ctx'.streams, s) :
                         ctx'.streams[i].request_handled
                   /\ Len(ForwardsOf(hist', s)) = 1)]_vars

\* after an error Return made the state machine call close(), the success
\* Return behind it marked the connection registered, and the request of
\* the data stream was handled; Disconnected has not arrived
C37_Witness ==
    /\ CloseCalled
    /\ state.registered
    /\ Len(hist.decodes) = 2
    /\ hist.decodes[2].close_calls[1] > 0
    /\ ~hist.decodes[2].registered[1]
    /\ Handled(1)
    /\ Len(ForwardsOf(hist, 1)) = 1

\* close() was called on a registered connection, which stays registered
C37_ClosedWhileRegistered ==
    /\ CloseCalled
    /\ state.registered
    /\ hist.decodes[2].registered[1]
    /\ hist.decodes[2].close_calls[2] > hist.decodes[2].close_calls[1]

(* ------------------------------------------------------------------------ *)
(* C38                                                                      *)
(* ------------------------------------------------------------------------ *)

\* the unconsumed bytes of the control stream begin with a header whose
\* segment-count field is not zero
MultiSegmentAhead ==
    \E i \in RecordsOf(ctx.streams, state.control_stream_id) :
        /\ Len(ctx.streams[i].recv_buf) - state.ctrl_parsed_offset >= 4
        /\ read_le32(ctx.streams[i].recv_buf, state.ctrl_parsed_offset) # 0

\* C38: once the unconsumed bytes of the control stream begin with a header
\* whose segment-count field is not zero, the cursor does not advance and no
\* message is decoded; the registered flag does not change and the state
\* machine does not close the connection.
C38_MultiSegmentStalls ==
    [][MultiSegmentAhead =>
          /\ state'.ctrl_parsed_offset = state.ctrl_parsed_offset
          /\ hist'.decodes = hist.decodes
          /\ state'.registered = state.registered
          /\ pq'.close_calls = pq.close_calls]_vars

\* the whole script has arrived, a complete Return for question 1 lies
\* behind the message of two segments, and the connection is neither
\* registered nor closed by the state machine
C38_Witness ==
    /\ MultiSegmentAhead
    /\ net[0] = <<>>
    /\ hist.script[Len(hist.script)].kind = "details"
    /\ \E i \in RecordsOf(ctx.streams, state.control_stream_id) :
          /\ Len(ctx.streams[i].recv_buf) - state.ctrl_parsed_offset
                = Len(MsgTwoSegments.bytes)
                     + Len(hist.script[Len(hist.script)].bytes)
          /\ capnp_wire_message_size(
                 ctx.streams[i].recv_buf,
                 state.ctrl_parsed_offset + Len(MsgTwoSegments.bytes),
                 Len(hist.script[Len(hist.script)].bytes)) > 0
    /\ ~state.registered
    /\ pq.close_calls = 0

(* ------------------------------------------------------------------------ *)
(* C39                                                                      *)
(* ------------------------------------------------------------------------ *)

\* the stream table with data and fin of a send() queued on stream s, and
\* nothing else changed
WithQueued(streams, s, data, fin) ==
    [i \in 1..Len(streams) |->
        IF streams[i].stream_id = s
        THEN [streams[i] EXCEPT !.send_buf = @ \o data,
                                !.send_fin = IF fin THEN TRUE ELSE @]
        ELSE streams[i]]

\* this step is a send() on stream s that fails
SendFails(s) ==
    /\ Len(hist'.sends[s]) = Len(hist.sends[s]) + 1
    /\ hist'.sends[s][Len(hist'.sends[s])].ret # 0

\* a failing send() on stream s with the f-th fallible call failing: with no
\* record nothing changes; when it is the growth of the send buffer that
\* fails nothing changes; when it is mark-active that fails, data and fin
\* are queued
FailureFrame(s, data, fin, f) ==
    LET r == quic_tunnel_send(World(f, NoOrigin, 0), s, data, TRUE, fin)
    IN  r.ret # 0 =>
            /\ r.w.pq = pq
            /\ IF RecordsOf(ctx.streams, s) = {} \/ (data # <<>> /\ f = 1)
               THEN r.w.ctx = ctx /\ r.w.hist.queued = hist.queued
               ELSE /\ r.w.ctx.streams = WithQueued(ctx.streams, s, data, fin)
                    /\ r.w.hist.queued[s] = hist.queued[s] \o data

\* C39: a send() that fails because the stream has no record or because the
\* send buffer cannot be grown leaves every stream record as it was; a send()
\* that fails in mark-active leaves the bytes and the FIN flag queued; a
\* failing send() does one or the other.
C39_FailedSendFrame ==
    [][\A s \in StreamIds : SendFails(s) =>
          LET e == hist'.sends[s][Len(hist'.sends[s])]
          IN  /\ \A f \in 0..2 : FailureFrame(s, e.data, e.fin, f)
              /\ pq' = pq
              /\ RecordsOf(ctx.streams, s) = {} => ctx' = ctx
              /\ \/ ctx' = ctx /\ hist'.queued = hist.queued
                 \/ /\ ctx'.streams = WithQueued(ctx.streams, s, e.data, e.fin)
                    /\ hist'.queued[s] = hist.queued[s] \o e.data]_vars

\* a send() of bytes with the FIN failed on a stream that has a record, and
\* the record holds neither the bytes nor the FIN
C39_Witness ==
    \E s \in StreamIds : \E i \in RecordsOf(ctx.streams, s) :
        /\ Len(hist.sends[s]) = 1
        /\ hist.sends[s][1].ret # 0
        /\ hist.sends[s][1].fin
        /\ hist.sends[s][1].data # <<>>
        /\ ctx.streams[i].send_buf = <<>>
        /\ ~ctx.streams[i].send_fin

\* a send() of bytes with the FIN failed in mark-active: the record holds
\* the bytes and the FIN
C39_MarkActiveFailureReached ==
    \E s \in StreamIds : \E i \in RecordsOf(ctx.streams, s) :
        /\ Len(hist.sends[s]) = 1
        /\ hist.sends[s][1].ret # 0
        /\ hist.sends[s][1].fin
        /\ hist.sends[s][1].data # <<>>
        /\ ctx.streams[i].send_buf = hist.sends[s][1].data
        /\ ctx.streams[i].send_fin
        /\ hist.pulled[s] = <<>>

\* a send() failed on a stream that has no record
C39_NoRecordReached ==
    \E s \in StreamIds :
        /\ RecordsOf(ctx.streams, s) = {}
        /\ Len(hist.sends[s]) = 1
        /\ hist.sends[s][1].ret # 0
        /\ ctx.cnx

====
